---- MODULE Spec2Model ----
(***************************************************************************)
(* Model of anki-ai-vocab (TypeScript): card assembly (createAnkiFields),   *)
(* the content generation client (VocabularyFetcher), the AnkiConnect      *)
(* client (AnkiConnector) and the CLI / interactive orchestration.          *)
(*                                                                         *)
(* A JavaScript string is a sequence of atoms.  An atom is one character,  *)
(* or a literal piece of markup that the code emits as a whole.  String    *)
(* concatenation is \o.  Text that the predicates of the code inspect       *)
(* (field names, headwords, filenames, meanings) is spelled character by   *)
(* character.                                                              *)
(***************************************************************************)
EXTENDS Integers, Sequences, FiniteSets, TLC

VARIABLES
    a_pc,          \* card assembly: "input" | "done" | "thrown"
    a_variant,     \* which createAnkiFields is built in: "word" | "expression"
    a_word,        \* createAnkiFields argument word
    a_wordInfo,    \* createAnkiFields argument wordInfo
    a_fieldNames,  \* createAnkiFields argument fieldNames
    a_audioFiles,  \* createAnkiFields argument audioFiles (filenames)
    a_front,       \* createAnkiFields local front (the front block)
    a_back,        \* createAnkiFields local back (the back block)
    a_frontField,  \* createAnkiFields local frontField, <<>> when never set
    a_backField,   \* createAnkiFields local backField, <<>> when never set
    a_fields       \* createAnkiFields result (the FieldMap)

assembleVars == <<a_pc, a_variant, a_word, a_wordInfo, a_fieldNames, a_audioFiles,
                  a_front, a_back, a_frontField, a_backField, a_fields>>

VARIABLES
    f_pc,                \* content generation client: "off" | "call" | "done"
    f_method,            \* "getWordInfo" | "getWordInfoWithSpecificMeanings"
    f_japaneseMeanings,  \* the caller-supplied list (specific-meanings mode)
    f_upstream,          \* what the chat completion call produced
    f_result             \* [outcome |-> "returned", data] or [outcome |-> "thrown", error]

fetchVars == <<f_pc, f_method, f_japaneseMeanings, f_upstream, f_result>>

VARIABLES
    k_pc,        \* AnkiConnector: "off" | "call" | "createDeck" | "addNote" | "done"
    k_op,        \* the AnkiConnector method the caller invoked
    k_args,      \* its arguments
    k_response,  \* what axios.post produced for the last request
    k_result     \* what the method gave its caller

ankiVars == <<k_pc, k_op, k_args, k_response, k_result>>

VARIABLES
    p_pc,                \* generateAudioFiles: "off" | "call" | "examples" | "done"
    p_word,              \* argument word
    p_exampleSentences,  \* argument exampleSentences
    p_voice,             \* argument voice
    p_sentences,         \* local sentences
    p_wordAudio,         \* local wordAudio
    p_exampleAudios,     \* local exampleAudios
    p_audio,             \* what the last call of generateAudio gave generateAudioFiles
    p_result             \* what generateAudioFiles gave its caller

audioVars == <<p_pc, p_word, p_exampleSentences, p_voice, p_sentences, p_wordAudio,
               p_exampleAudios, p_audio, p_result>>

VARIABLES
    m_pc,          \* main / InteractiveSession: the await the flow stands at
    m_argv,        \* the command line
    m_apiKey,      \* config.openai_api_key is set
    m_fieldNames,  \* fieldNames / this.fieldNames
    m_parts,       \* interactive mode: the parts of the command being handled
    m_word,        \* the headword of the request
    m_noteIds,     \* delete: what findNotes returned
    m_confirm,     \* delete: the answer to the confirmation prompt
    m_audioFiles,  \* add: local audioFiles
    m_exit,        \* "" while running, then "exit(0)" | "exit(1)" | "return"
    m_rl           \* this.rl of the session: "none" | "open" | "closed"

mainVars == <<m_pc, m_argv, m_apiKey, m_fieldNames, m_parts, m_word, m_noteIds,
              m_confirm, m_audioFiles, m_exit, m_rl>>

VARIABLES
    c_pc,         \* configuration: "off" | "call" | "done"
    c_env,        \* process.env: the five variables, undefined or a string
    c_file,       \* the config file: absent, unparseable, or its JSON value
    c_options,    \* program.opts(): deck and model
    c_config,     \* what loadConfig returned
    c_deckName,   \* main: local deckName
    c_modelName   \* main: local modelName

configVars == <<c_pc, c_env, c_file, c_options, c_config, c_deckName, c_modelName>>

VARIABLES
    calls        \* the requests sent to external services for the current
                 \* command, in order

vars == <<assembleVars, fetchVars, ankiVars, audioVars, mainVars, configVars, calls>>

NoResult == [outcome |-> "none"]

\* the component is not part of the specification being checked
AssembleOff ==
    /\ a_pc = "off" /\ a_variant = "word"
    /\ a_word = <<>> /\ a_wordInfo = <<>> /\ a_fieldNames = <<>>
    /\ a_audioFiles = <<>> /\ a_front = <<>> /\ a_back = <<>>
    /\ a_frontField = <<>> /\ a_backField = <<>> /\ a_fields = <<>>

FetchOff ==
    /\ f_pc = "off" /\ f_method = "" /\ f_japaneseMeanings = <<>>
    /\ f_upstream = <<>> /\ f_result = NoResult

AnkiOff ==
    /\ k_pc = "off" /\ k_op = "" /\ k_args = <<>>
    /\ k_response = <<>> /\ k_result = NoResult

AudioOff ==
    /\ p_pc = "off" /\ p_word = <<>> /\ p_exampleSentences = <<>> /\ p_voice = <<>>
    /\ p_sentences = <<>> /\ p_wordAudio = <<>> /\ p_exampleAudios = <<>>
    /\ p_audio = NoResult /\ p_result = NoResult

MainOff ==
    /\ m_pc = "off" /\ m_argv = <<>> /\ m_apiKey = FALSE /\ m_fieldNames = <<>>
    /\ m_parts = <<>> /\ m_word = <<>> /\ m_noteIds = <<>> /\ m_confirm = <<>>
    /\ m_audioFiles = <<>> /\ m_exit = "" /\ m_rl = "none"

ConfigOff ==
    /\ c_pc = "off" /\ c_env = <<>> /\ c_file = <<>> /\ c_options = <<>>
    /\ c_config = <<>> /\ c_deckName = <<>> /\ c_modelName = <<>>

----------------------------------------------------------------------------
(* Bounds *)

MaxFields == 3      \* longest fieldNames list explored
MaxExamples == 10   \* largest number of example sentences explored
MaxMeanings == 2    \* longest english_meaning list the upstream returns
MaxNotes == 2       \* most note ids findNotes returns

----------------------------------------------------------------------------
(* JavaScript strings *)

Upper == <<"A","B","C","D","E","F","G","H","I","J","K","L","M",
           "N","O","P","Q","R","S","T","U","V","W","X","Y","Z">>
Lower == <<"a","b","c","d","e","f","g","h","i","j","k","l","m",
           "n","o","p","q","r","s","t","u","v","w","x","y","z">>

toLowerCaseChar(c) ==
    IF \E i \in 1..Len(Upper) : Upper[i] = c
    THEN Lower[CHOOSE i \in 1..Len(Upper) : Upper[i] = c]
    ELSE c

toLowerCase(s) == [i \in 1..Len(s) |-> toLowerCaseChar(s[i])]

startsWith(s, p) == Len(p) <= Len(s) /\ SubSeq(s, 1, Len(p)) = p

includes(s, p) == \E i \in 0..(Len(s) - Len(p)) : SubSeq(s, i + 1, i + Len(p)) = p

\* Number.prototype.toString for a non-negative integer
RECURSIVE Digits(_)
Digits(n) ==
    LET d == <<"0","1","2","3","4","5","6","7","8","9">>[(n % 10) + 1]
    IN IF n < 10 THEN <<d>> ELSE Digits(n \div 10) \o <<d>>

\* Array.prototype.join of a sequence of strings
RECURSIVE join(_, _)
join(items, sep) ==
    IF Len(items) = 0 THEN <<>>
    ELSE IF Len(items) = 1 THEN items[1]
    ELSE items[1] \o sep \o join(Tail(items), sep)

\* Primary collation order of the characters that occur in audio filenames
\* (String.prototype.localeCompare: punctuation, then digits, then letters).
CollationOrder == <<"_", ".", "0","1","2","3","4","5","6","7","8","9">> \o Lower

CollationRank(c) ==
    LET l == toLowerCaseChar(c)
    IN IF \E i \in 1..Len(CollationOrder) : CollationOrder[i] = l
       THEN CHOOSE i \in 1..Len(CollationOrder) : CollationOrder[i] = l
       ELSE 0

\* a.localeCompare(b) < 0, = 0, > 0 as -1, 0, 1
RECURSIVE localeCompare(_, _)
localeCompare(a, b) ==
    IF Len(a) = 0 /\ Len(b) = 0 THEN 0
    ELSE IF Len(a) = 0 THEN -1
    ELSE IF Len(b) = 0 THEN 1
    ELSE IF a[1] = b[1] THEN localeCompare(Tail(a), Tail(b))
    ELSE IF CollationRank(a[1]) < CollationRank(b[1]) THEN -1
    ELSE IF CollationRank(a[1]) > CollationRank(b[1]) THEN 1
    ELSE localeCompare(Tail(a), Tail(b))

----------------------------------------------------------------------------
(* JavaScript values of the upstream record: a value is a record          *)
(* [kind, val]; val is the text of a string, the items of an array, and    *)
(* <<>> for undefined.                                                     *)

Undefined == [kind |-> "undefined", val |-> <<>>]
Str(s) == [kind |-> "string", val |-> s]
Arr(items) == [kind |-> "array", val |-> items]
Obj(props) == [kind |-> "object", val |-> props]

isArray(v) == v.kind = "array"

\* truthiness of a value used as a condition
truthy(v) ==
    \/ v.kind \in {"array", "object"}
    \/ v.kind = "string" /\ Len(v.val) > 0

\* template-literal rendering `${v}`
RECURSIVE toText(_)
toText(v) ==
    IF v.kind = "string" THEN v.val
    ELSE IF v.kind = "array"
    THEN join([i \in 1..Len(v.val) |-> toText(v.val[i])], <<",">>)
    ELSE IF v.kind = "object" THEN <<"[object Object]">>
    ELSE <<"u","n","d","e","f","i","n","e","d">>

\* property read obj.key of an object whose properties are strings
prop(obj, key) == IF key \in DOMAIN obj.val THEN Str(obj.val[key]) ELSE Undefined

\* property read v.key of a record of the content generation client;
\* a missing key, and any key of a primitive, reads as undefined
getField(v, key) ==
    IF v.kind = "object" /\ key \in DOMAIN v.val THEN v.val[key] ELSE Undefined

\* `v` inside a template literal, without `|| ''`
orItself(v) == toText(v)

\* `v || ''` inside a template literal
orEmpty(v) == IF truthy(v) THEN toText(v) ELSE <<>>

NA == <<"N", "/", "A">>

\* `v && v !== 'N/A'` : the guard of an optional section
hasSection(v) == truthy(v) /\ ~(v.kind = "string" /\ v.val = NA)

----------------------------------------------------------------------------
(* createAnkiFields (src/lib/utils.ts) *)

WordPrefix == <<"w","o","r","d","_">>
ExamplePrefix == <<"e","x","a","m","p","l","e","_">>
Mp3 == <<".","m","p","3">>

\* word.replace(/[ /\\]/, '_') : without the g flag only the first occurrence
\* is replaced
safeWordFirstOnly(word) ==
    LET hits == { i \in 1..Len(word) : word[i] \in {" ", "/", "\\"} }
    IN [i \in 1..Len(word) |->
          IF i \in hits /\ \A j \in hits : i <= j THEN "_" ELSE word[i]]

\* word.replace(/[ /\\]/g, '_')
safeWord(word) ==
    [i \in 1..Len(word) |-> IF word[i] \in {" ", "/", "\\"} THEN "_" ELSE word[i]]

\* ` [sound:${filename}]`
soundTag(filename) == <<" [sound:">> \o filename \o <<"]">>

\* wordAudioTag looking for the prefix of the other variant, expression_
wordAudioTagOfExpression(word, audioFiles) ==
    LET found == SelectSeq(audioFiles,
                     LAMBDA af : startsWith(af.filename,
                                     <<"e","x","p","r","e","s","s","i","o","n","_">> \o safeWord(word)))
    IN IF Len(audioFiles) > 0 /\ Len(found) > 0
       THEN soundTag(found[1].filename)
       ELSE <<>>

wordAudioTag(word, audioFiles) ==
    LET found == SelectSeq(audioFiles,
                     LAMBDA af : startsWith(af.filename, WordPrefix \o safeWord(word)))
    IN IF Len(audioFiles) > 0 /\ Len(found) > 0
       THEN soundTag(found[1].filename)
       ELSE <<>>

\* front with the sanitized key written in place of the headword
frontOfSafeWord(word, wordInfo, audioFiles) ==
    <<"<div style=\"font-size: 24px; font-weight: bold;\">">>
    \o safeWord(word) \o wordAudioTag(word, audioFiles)
    \o <<"</div><div style=\"font-size: 18px; color: #666;\">">>
    \o orEmpty(getField(wordInfo, "ipa"))
    \o <<"</div>">>

front(word, wordInfo, audioFiles) ==
    <<"<div style=\"font-size: 24px; font-weight: bold;\">">>
    \o word \o wordAudioTag(word, audioFiles)
    \o <<"</div><div style=\"font-size: 18px; color: #666;\">">>
    \o orEmpty(getField(wordInfo, "ipa"))
    \o <<"</div>">>

\* '<ul ...>' + items.map(x => `<li>${x}</li>`).join('') + '</ul>'
bulletList(items) ==
    <<"<ul style=\"margin: 5px 0; padding-left: 20px;\">">>
    \o join([i \in 1..Len(items) |-> <<"<li>">> \o items[i] \o <<"</li>">>], <<>>)
    \o <<"</ul>">>

\* english_meaning / japanese_meaning: a list when an array, else the value itself
meaningHtml(content) ==
    IF isArray(content)
    THEN bulletList([i \in 1..Len(content.val) |-> toText(content.val[i])])
    ELSE toText(content)

RECURSIVE insertByFilename(_, _)
insertByFilename(sorted, af) ==
    IF Len(sorted) = 0 THEN <<af>>
    ELSE IF localeCompare(af.filename, sorted[1].filename) < 0 THEN <<af>> \o sorted
    ELSE <<sorted[1]>> \o insertByFilename(Tail(sorted), af)

\* .sort((a, b) => a.filename.localeCompare(b.filename)) : a stable sort
RECURSIVE sortByFilename(_)
sortByFilename(files) ==
    IF Len(files) = 0 THEN <<>>
    ELSE insertByFilename(sortByFilename(SubSeq(files, 1, Len(files) - 1)), files[Len(files)])

exampleAudioFiles(word, audioFiles) ==
    sortByFilename(SelectSeq(audioFiles,
        LAMBDA af : startsWith(af.filename, ExamplePrefix \o safeWord(word) \o <<"_">>)))

\* exampleAudioTag without the test i < exampleAudioFiles.length: the assets
\* are used again from the first one
exampleAudioTagCycling(files, i) ==
    IF Len(files) > 0 /\ Len(files[(i % Len(files)) + 1].filename) > 0
    THEN soundTag(files[(i % Len(files)) + 1].filename)
    ELSE <<>>

\* the audio tag of the example at 0-based position i
exampleAudioTag(files, i) ==
    IF i < Len(files) /\ Len(files[i + 1].filename) > 0
    THEN soundTag(files[i + 1].filename)
    ELSE <<>>

exampleHtml(word, wordInfo, audioFiles) ==
    LET exampleContent == getField(wordInfo, "example_sentence")
        files == exampleAudioFiles(word, audioFiles)
    IN IF isArray(exampleContent)
       THEN bulletList([i \in 1..Len(exampleContent.val) |->
                          toText(exampleContent.val[i]) \o exampleAudioTag(files, i - 1)])
       ELSE toText(exampleContent) \o exampleAudioTag(files, 0)

idiomItem(idiom) ==
    IF idiom.kind = "object" /\ "english" \in DOMAIN idiom.val /\ "japanese" \in DOMAIN idiom.val
    THEN idiom.val["english"]
         \o <<"<br><span style='color: #666; margin-left: 20px;'>&rarr; ">>
         \o idiom.val["japanese"] \o <<"</span>">>
    ELSE toText(idiom)

\* idiomSection without the test for the "N/A" sentinel
idiomSectionOfAnyText(wordInfo) ==
    IF truthy(getField(wordInfo, "idiom"))
    THEN <<"<div style=\"margin-bottom: 15px;\">", "<strong>Idiom/Phrase:</strong> ">>
         \o (IF isArray(getField(wordInfo, "idiom"))
             THEN bulletList([i \in 1..Len(getField(wordInfo, "idiom").val) |-> idiomItem(getField(wordInfo, "idiom").val[i])])
             ELSE toText(getField(wordInfo, "idiom")))
         \o <<"</div>">>
    ELSE <<>>

idiomSection(wordInfo) ==
    IF hasSection(getField(wordInfo, "idiom"))
    THEN <<"<div style=\"margin-bottom: 15px;\">", "<strong>Idiom/Phrase:</strong> ">>
         \o (IF isArray(getField(wordInfo, "idiom"))
             THEN bulletList([i \in 1..Len(getField(wordInfo, "idiom").val) |-> idiomItem(getField(wordInfo, "idiom").val[i])])
             ELSE toText(getField(wordInfo, "idiom")))
         \o <<"</div>">>
    ELSE <<>>

similarItem(similar) ==
    IF similar.kind = "object" /\ "word" \in DOMAIN similar.val
    THEN <<"<strong>">> \o similar.val["word"] \o <<"</strong>: ">>
         \o orEmpty(prop(similar, "difference"))
         \o <<"<br><span style='color: #666; margin-left: 20px;'>&rarr; ">>
         \o orEmpty(prop(similar, "difference_japanese")) \o <<"</span>">>
    ELSE toText(similar)

similarSection(wordInfo) ==
    IF hasSection(getField(wordInfo, "similar_words"))
    THEN <<"<div style=\"margin-bottom: 15px; margin-top: 20px;\">",
           "<strong>Similar Words & Differences:</strong> ">>
         \o (IF isArray(getField(wordInfo, "similar_words"))
             THEN bulletList([i \in 1..Len(getField(wordInfo, "similar_words").val) |->
                                 similarItem(getField(wordInfo, "similar_words").val[i])])
             ELSE toText(getField(wordInfo, "similar_words")))
         \o <<"</div>">>
    ELSE <<>>

back(word, wordInfo, audioFiles) ==
    <<"<div style=\"margin-bottom: 15px;\"><strong>English:</strong> ">>
    \o meaningHtml(getField(wordInfo, "english_meaning")) \o <<"</div>">>
    \o <<"<div style=\"margin-bottom: 15px; margin-top: 20px;\"><strong>Example:</strong> ">>
    \o exampleHtml(word, wordInfo, audioFiles) \o <<"</div>">>
    \o <<"<hr style=\"margin: 20px 0; border: 1px solid #ccc;\">">>
    \o <<"<div style=\"margin-bottom: 15px;\"><strong>Japanese:</strong> ">>
    \o meaningHtml(getField(wordInfo, "japanese_meaning")) \o <<"</div>">>
    \o idiomSection(wordInfo)
    \o similarSection(wordInfo)

\* the back block of the expression variant: the same meanings, example and
\* idiom blocks, then derivatives, then similar expressions
expressionBack(expression, expressionInfo, audioFiles) ==
    LET derivatives == getField(expressionInfo, "derivatives")
        similarContent == getField(expressionInfo, "similar_expressions")
        derivativeItem(derivative) ==
            IF derivative.kind = "object" /\ "word" \in DOMAIN derivative.val
            THEN <<"<strong>">> \o derivative.val["word"] \o <<"</strong> [">>
                 \o orEmpty(prop(derivative, "part_of_speech")) \o <<"]: ">>
                 \o orEmpty(prop(derivative, "meaning"))
                 \o <<"<br><span style='color: #666; margin-left: 20px;'>&rarr; ">>
                 \o orEmpty(prop(derivative, "japanese_meaning")) \o <<"</span>">>
            ELSE toText(derivative)
        similarExpressionItem(similar) ==
            IF similar.kind = "object" /\ "expression" \in DOMAIN similar.val
            THEN <<"<strong>">> \o similar.val["expression"] \o <<"</strong>: ">>
                 \o orEmpty(prop(similar, "difference"))
                 \o <<"<br><span style='color: #666; margin-left: 20px;'>&rarr; ">>
                 \o orEmpty(prop(similar, "difference_japanese")) \o <<"</span>">>
            ELSE toText(similar)
    IN back(expression, Obj([k \in DOMAIN expressionInfo.val \ {"similar_words"} |->
                               expressionInfo.val[k]]), audioFiles)
       \o (IF hasSection(derivatives)
           THEN <<"<div style=\"margin-bottom: 15px; margin-top: 20px;\">",
                  "<strong>Derivatives:</strong> ">>
                \o (IF isArray(derivatives)
                    THEN bulletList([i \in 1..Len(derivatives.val) |->
                                        derivativeItem(derivatives.val[i])])
                    ELSE toText(derivatives))
                \o <<"</div>">>
           ELSE <<>>)
       \o (IF hasSection(similarContent)
           THEN <<"<div style=\"margin-bottom: 15px; margin-top: 20px;\">",
                  "<strong>Similar Expressions & Differences:</strong> ">>
                \o (IF isArray(similarContent)
                    THEN bulletList([i \in 1..Len(similarContent.val) |->
                                        similarExpressionItem(similarContent.val[i])])
                    ELSE toText(similarContent))
                \o <<"</div>">>
           ELSE <<>>)

matchesFront(field) ==
    \E x \in { <<"f","r","o","n","t">>, <<"q","u","e","s","t","i","o","n">>,
            <<"t","e","x","t","1">>, <<"e","x","p","r","e","s","s","i","o","n">>,
            <<"w","o","r","d">> } :
        includes(toLowerCase(field), x)

matchesBack(field) ==
    \E x \in { <<"b","a","c","k">>, <<"a","n","s","w","e","r">>, <<"t","e","x","t","2">>,
            <<"m","e","a","n","i","n","g">>, <<"d","e","f","i","n","i","t","i","o","n">> } :
        includes(toLowerCase(field), x)

\* The for-loop over fieldNames from index i on; <<>> stands for "not yet set".
\* Returns <<frontField, backField>>.
RECURSIVE scanFieldNames(_, _, _, _)
scanFieldNames(fieldNames, i, frontField, backField) ==
    IF i > Len(fieldNames) THEN <<frontField, backField>>
    ELSE IF matchesFront(fieldNames[i])
         THEN scanFieldNames(fieldNames, i + 1, fieldNames[i], backField)
    ELSE IF matchesBack(fieldNames[i])
         THEN scanFieldNames(fieldNames, i + 1, frontField, fieldNames[i])
    ELSE scanFieldNames(fieldNames, i + 1, frontField, backField)

\* frontField after the positional default
frontField(fieldNames) ==
    LET found == scanFieldNames(fieldNames, 1, <<>>, <<>>)[1]
    IN IF Len(found) = 0 THEN fieldNames[1] ELSE found

\* backField with the first name as the positional default
backFieldDefaultsToFirst(fieldNames) ==
    LET found == scanFieldNames(fieldNames, 1, <<>>, <<>>)[2]
    IN IF Len(found) = 0 THEN fieldNames[1] ELSE found

\* backField after the positional default
backField(fieldNames) ==
    LET found == scanFieldNames(fieldNames, 1, <<>>, <<>>)[2]
    IN IF Len(found) = 0
       THEN (IF Len(fieldNames) > 1 THEN fieldNames[2] ELSE fieldNames[1])
       ELSE found

emptyFields == [f \in {} |-> <<>>]

\* twoFieldMap by position only, without the scan of the names
twoFieldMapPositional(fieldNames, frontBlock, backBlock) ==
    (fieldNames[2] :> backBlock) @@ (fieldNames[1] :> frontBlock)

\* fieldNames.length >= 2 : one entry per resolved field
twoFieldMap(fieldNames, frontBlock, backBlock) ==
    LET ff == frontField(fieldNames)
        bf == backField(fieldNames)
        withFront == IF Len(ff) > 0 THEN (ff :> frontBlock) ELSE emptyFields
    IN IF Len(bf) > 0 /\ bf # ff
       THEN (bf :> backBlock) @@ withFront
       ELSE withFront

\* singleFieldMap with the back block forgotten
singleFieldMapFrontOnly(fieldNames, frontBlock, backBlock) ==
    IF Len(fieldNames) > 0 /\ Len(fieldNames[1]) > 0
    THEN (fieldNames[1] :> frontBlock)
    ELSE emptyFields

\* single field note type: front + '\n' + back under fieldNames[0]
singleFieldMap(fieldNames, frontBlock, backBlock) ==
    IF Len(fieldNames) > 0 /\ Len(fieldNames[1]) > 0
    THEN (fieldNames[1] :> (frontBlock \o <<"\n">> \o backBlock))
    ELSE emptyFields

\* `'english' in idiom` / `'word' in similar` on a null element of the list
\* (typeof null is 'object'), and a property read on a null record, raise a
\* TypeError
createAnkiFieldsThrows(wordInfo, collections) ==
    \/ wordInfo.kind \in {"null", "undefined"}
    \/ \E key \in collections :
          /\ hasSection(getField(wordInfo, key))
          /\ isArray(getField(wordInfo, key))
          /\ \E i \in 1..Len(getField(wordInfo, key).val) :
                 getField(wordInfo, key).val[i].kind = "null"

createAnkiFields(word, wordInfo, fieldNames, audioFiles) ==
    LET frontBlock == front(word, wordInfo, audioFiles)
        backBlock == back(word, wordInfo, audioFiles)
    IN IF Len(fieldNames) >= 2
       THEN twoFieldMap(fieldNames, frontBlock, backBlock)
       ELSE singleFieldMap(fieldNames, frontBlock, backBlock)

----------------------------------------------------------------------------
(* VocabularyFetcher (src/lib/vocabularyFetcher.ts) *)

Null == [kind |-> "null", val |-> <<>>]
Num == [kind |-> "number", val |-> <<>>]

TagVerb == <<"[","v","e","r","b","]">>
TagNoun == <<"[","n","o","u","n","]">>
TagAdjective == <<"[","a","d","j","e","c","t","i","v","e","]">>
TagAdverb == <<"[","a","d","v","e","r","b","]">>
TagDefinition == <<"[","d","e","f","i","n","i","t","i","o","n","]">>

\* the text after the last space: meaningLower.split(" ").pop()
RECURSIVE lastToken(_)
lastToken(s) ==
    IF Len(s) = 0 THEN <<>>
    ELSE IF s[Len(s)] = " " THEN <<>>
    ELSE lastToken(SubSeq(s, 1, Len(s) - 1)) \o <<s[Len(s)]>>

endsWith(s, p) == Len(p) <= Len(s) /\ SubSeq(s, Len(s) - Len(p) + 1, Len(s)) = p

\* meaning.split(" ").length
splitLength(s) == Cardinality({ i \in 1..Len(s) : s[i] = " " }) + 1

\* inferTag with the -ly test moved before the test for "act of" and the like
inferTagAdverbEarly(meaning) ==
    LET meaningLower == toLowerCase(meaning)
    IN IF startsWith(meaningLower, <<"t","o"," ">>) \/ startsWith(meaningLower, <<"t","o"," ","b","e"," ">>)
       THEN TagVerb
       ELSE IF \/ startsWith(meaningLower, <<"a"," ">>)
               \/ startsWith(meaningLower, <<"a","n"," ">>)
               \/ startsWith(meaningLower, <<"t","h","e"," ">>)
       THEN TagNoun
       ELSE IF \E w \in { <<"h","a","v","i","n","g"," ">>,
                          <<"b","e","i","n","g"," ">>,
                          <<"s","h","o","w","i","n","g"," ">>,
                          <<"c","a","u","s","i","n","g"," ">>,
                          <<"p","l","e","a","s","i","n","g"," ">>,
                          <<"m","a","k","i","n","g"," ">> } : startsWith(meaningLower, w)
       THEN TagAdjective
       ELSE IF endsWith(lastToken(meaningLower), <<"l","y">>)
       THEN TagAdverb
       ELSE IF \E w \in { <<" ","a","c","t"," ","o","f"," ">>,
                          <<" ","p","r","o","c","e","s","s"," ","o","f"," ">>,
                          <<" ","s","t","a","t","e"," ","o","f"," ">>,
                          <<" ","q","u","a","l","i","t","y"," ","o","f"," ">> } : includes(meaningLower, w)
       THEN TagNoun
       ELSE IF /\ splitLength(meaning) <= 5
               /\ \A c \in {".", ",", ":", ";"} : ~includes(meaning, <<c>>)
       THEN TagAdjective
       ELSE TagDefinition

\* the tag inferred for a meaning that does not start with "["
inferTag(meaning) ==
    LET meaningLower == toLowerCase(meaning)
    IN IF startsWith(meaningLower, <<"t","o"," ">>) \/ startsWith(meaningLower, <<"t","o"," ","b","e"," ">>)
       THEN TagVerb
       ELSE IF \/ startsWith(meaningLower, <<"a"," ">>)
               \/ startsWith(meaningLower, <<"a","n"," ">>)
               \/ startsWith(meaningLower, <<"t","h","e"," ">>)
       THEN TagNoun
       ELSE IF \E w \in { <<"h","a","v","i","n","g"," ">>,
                          <<"b","e","i","n","g"," ">>,
                          <<"s","h","o","w","i","n","g"," ">>,
                          <<"c","a","u","s","i","n","g"," ">>,
                          <<"p","l","e","a","s","i","n","g"," ">>,
                          <<"m","a","k","i","n","g"," ">> } : startsWith(meaningLower, w)
       THEN TagAdjective
       ELSE IF \E w \in { <<" ","a","c","t"," ","o","f"," ">>,
                          <<" ","p","r","o","c","e","s","s"," ","o","f"," ">>,
                          <<" ","s","t","a","t","e"," ","o","f"," ">>,
                          <<" ","q","u","a","l","i","t","y"," ","o","f"," ">> } : includes(meaningLower, w)
       THEN TagNoun
       ELSE IF endsWith(lastToken(meaningLower), <<"l","y">>)
       THEN TagAdverb
       ELSE IF /\ splitLength(meaning) <= 5
               /\ \A c \in {".", ",", ":", ";"} : ~includes(meaning, <<c>>)
       THEN TagAdjective
       ELSE TagDefinition

\* one element of meanings.map(...): kept when it starts with "[", else tagged
processMeaning(meaning) ==
    IF startsWith(meaning, <<"[">>) THEN meaning
    ELSE inferTag(meaning) \o <<" ">> \o meaning

\* processEnglishMeanings(meanings) for an array of strings
processEnglishMeanings(meanings) ==
    [i \in 1..Len(meanings) |-> Str(processMeaning(meanings[i].val))]

\* meaning.startsWith is not a function: an element that is not a string
mapThrows(meanings) == \E i \in 1..Len(meanings) : meanings[i].kind # "string"

\* obj with obj[key] = value
setField(data, key, value) ==
    Obj([k \in DOMAIN data.val \cup {key} |-> IF k = key THEN value ELSE data.val[k]])

\* lines "Ensure english_meaning entries have parts of speech" of the four
\* fetch methods: <<threw, data>>
tagEnglishMeanings(data) ==
    IF data.kind = "null" THEN <<TRUE, data>>
    ELSE LET en == getField(data, "english_meaning")
         IN IF truthy(en) /\ isArray(en)
            THEN IF mapThrows(en.val) THEN <<TRUE, data>>
                 ELSE <<FALSE, setField(data, "english_meaning",
                                        Arr(processEnglishMeanings(en.val)))>>
            ELSE <<FALSE, data>>

Thrown(kind) == [outcome |-> "thrown", error |-> kind]
Returned(data) == [outcome |-> "returned", data |-> data]

\* no record can be built: the call failed, no content, or not JSON
noData(upstream) == upstream.kind \in {"apiError", "noContent", "unparseable"}

\* getWordInfo / getExpressionInfo: every exception leaves as OpenAIError
getWordInfo(upstream) ==
    IF noData(upstream) THEN Thrown("OpenAIError")
    ELSE LET tagged == tagEnglishMeanings(upstream.data)
         IN IF tagged[1] THEN Thrown("OpenAIError") ELSE Returned(tagged[2])

\* withSpecificMeanings without the final data.idiom = "N/A"
withSpecificMeaningsKeepIdiom(data, japaneseMeanings) ==
    IF data.kind # "object" THEN <<TRUE, data>>
    ELSE LET withJa == setField(data, "japanese_meaning", Arr(japaneseMeanings))
             tagged == tagEnglishMeanings(withJa)
         IN IF tagged[1] THEN <<TRUE, data>> ELSE <<FALSE, tagged[2]>>

\* data.japanese_meaning = japaneseMeanings; ...; data.idiom = "N/A"
\* (a property assignment on null or, in a strict-mode module, on a
\* primitive throws a TypeError): <<threw, data>>
withSpecificMeanings(data, japaneseMeanings) ==
    IF data.kind # "object" THEN <<TRUE, data>>
    ELSE LET withJa == setField(data, "japanese_meaning", Arr(japaneseMeanings))
             tagged == tagEnglishMeanings(withJa)
         IN IF tagged[1] THEN <<TRUE, data>>
            ELSE <<FALSE, setField(tagged[2], "idiom", Str(NA))>>

\* getWordInfoWithSpecificMeanings / getExpressionInfoWithSpecificMeanings
getWordInfoWithSpecificMeanings(upstream, japaneseMeanings) ==
    IF noData(upstream) THEN Thrown("OpenAIError")
    ELSE LET done == withSpecificMeanings(upstream.data, japaneseMeanings)
         IN IF done[1] THEN Thrown("OpenAIError") ELSE Returned(done[2])

----------------------------------------------------------------------------
(* Inputs of the card assembly specification *)

\* non-empty lists of distinct field names
FieldNameLists ==
    UNION { { s \in [1..n -> { <<"F","r","o","n","t">>, <<"B","a","c","k">>, <<"W","O","R","D">>,
            <<"A","n","s","w","e","r">>, <<"N","o","t","e","s">>, <<"E","x","t","r","a">>,
            <<"W","o","r","d"," ","M","e","a","n","i","n","g">> }] : \A i,
            j \in 1..n : i # j => s[i] # s[j] }
            : n \in 1..MaxFields }

FrontBack == << <<"F","r","o","n","t">>, <<"B","a","c","k">> >>

\* the n-th example sentence
Sentence(n) == <<"Sentence ">> \o Digits(n)

Sentences(n) == [i \in 1..n |-> Str(Sentence(i))]

MeaningNoun == <<"[","n","o","u","n","]"," ","a"," ","t","r","i","a","l">>
MeaningJa == <<"shiken">>

\* records of the legal shape with n example sentences
WordInfos(n) ==
    { Obj([english_meaning |-> en, japanese_meaning |-> ja, ipa |-> ipa, idiom |-> idiom,
           example_sentence |-> ex, similar_words |-> sim]) :
        en \in { Arr(<<Str(MeaningNoun)>>) },
        ja \in { Str(MeaningJa), Arr(<<Str(MeaningJa), Str(MeaningJa)>>) },
        ipa \in { Str(<<"/test/">>) },
        idiom \in { Undefined, Str(NA),
                   Arr(<< Obj([english |-> <<"put to the test">>, japanese |-> <<"tamesu">>]) >>) },
        sim \in { Str(NA) },
        ex \in { Arr(Sentences(n)) } \cup (IF n = 1 THEN { Str(Sentence(1)) } ELSE {}) }

\* handleAddCommand / main: const safeWord = word.replace(/[ /\\]/g, '_')
safeWordForAudio(word) ==
    [i \in 1..Len(word) |-> IF word[i] = " " \/ word[i] = "/" \/ word[i] = "\\" THEN "_" ELSE word[i]]

wordAudioFile(word, fieldNames) ==
    [filename |-> WordPrefix \o safeWordForAudio(word) \o Mp3,
     fields |-> IF Len(fieldNames) > 0 THEN <<fieldNames[1]>> ELSE <<>>]

exampleAudioFile(word, fieldNames, n) ==
    [filename |-> ExamplePrefix \o safeWordForAudio(word) \o <<"_">> \o Digits(n) \o Mp3,
     fields |-> IF Len(fieldNames) > 1 THEN <<fieldNames[2]>> ELSE fieldNames]

\* the headword asset followed by the example assets 1..k
AudioList(word, fieldNames, k) ==
    <<wordAudioFile(word, fieldNames)>>
    \o [i \in 1..k |-> exampleAudioFile(word, fieldNames, i)]

Rotate(s, r) == [i \in 1..Len(s) |-> s[((i - 1 + r) % Len(s)) + 1]]

\* input orders of an asset list: every rotation of the list and of its reverse
Orders(s) == { Rotate(s, r) : r \in 0..(Len(s) - 1) }
             \cup { Rotate([i \in 1..Len(s) |-> s[Len(s) + 1 - i]], r) : r \in 0..(Len(s) - 1) }

\* what JSON.parse can give for a record: each of the three texts a bare
\* string or a list, ipa present or not, each optional collection absent,
\* "N/A", a list of pairs, or a list holding null
ShapedInfos ==
    { Obj([k \in { k \in DOMAIN rec : rec[k] # Undefined } |-> rec[k]]) : rec \in
        [english_meaning : { Str(MeaningNoun), Arr(<<Str(MeaningNoun), Str(MeaningNoun)>>) },
         japanese_meaning : { Str(MeaningJa), Arr(<<Str(MeaningJa)>>) },
         example_sentence : { Str(Sentence(1)), Arr(Sentences(2)) },
         ipa : { Undefined, Str(<<"/test/">>) },
         idiom : { Undefined, Str(NA), Arr(<<Null>>),
                   Arr(<< Obj([english |-> <<"put to the test">>, japanese |-> <<"tamesu">>]) >>) },
         similar_words : { Undefined, Str(NA), Arr(<<Null>>),
                           Arr(<< Obj([word |-> <<"exam">>, difference |-> <<"more formal">>,
                                       difference_japanese |-> <<"yori keishiki-teki">>]) >>) }] }

\* records of the expression variant: each optional collection absent, "N/A",
\* a list of objects, or a list holding null
ExpressionInfos ==
    { Obj([k \in { k \in DOMAIN rec : rec[k] # Undefined } |-> rec[k]]) : rec \in
        [english_meaning : { Arr(<<Str(MeaningNoun)>>) },
         japanese_meaning : { Str(MeaningJa) },
         example_sentence : { Arr(Sentences(1)) },
         ipa : { Str(<<"/test/">>) },
         idiom : { Undefined, Str(NA),
                   Arr(<< Obj([english |-> <<"put to the test">>, japanese |-> <<"tamesu">>]) >>) },
         derivatives : { Undefined, Str(NA), Arr(<<Null>>),
                         Arr(<< Obj([word |-> <<"tester">>, part_of_speech |-> <<"noun">>,
                                     meaning |-> <<"one who tests">>,
                                     japanese_meaning |-> <<"shikensha">>]) >>) },
         similar_expressions : { Undefined, Str(NA),
                                 Arr(<< Obj([expression |-> <<"try out">>,
                                             difference |-> <<"less formal">>]) >>) }] }

\* Either the field-name list varies (short example lists), or the example
\* list and the order of the assets vary (the usual two fields), or the shape
\* of the record varies (both variants; the expression variant without audio,
\* where its front and example blocks are those of the word variant).
InitAssemble ==
    /\ ConfigOff /\ FetchOff /\ AnkiOff /\ AudioOff /\ MainOff /\ calls = <<>>
    /\ a_pc = "input"
    /\ a_fields = emptyFields
    /\ a_front = <<>> /\ a_back = <<>>
    /\ a_frontField = <<>> /\ a_backField = <<>>
    /\ \E n \in 1..MaxExamples :
         \/ /\ n <= 2
            /\ a_variant = "word"
            /\ a_word = <<"t","e","s","t">>
            /\ a_wordInfo \in { w \in WordInfos(n) : getField(w, "japanese_meaning").kind = "string" }
            /\ a_fieldNames \in FieldNameLists
            /\ a_audioFiles \in { <<>>, AudioList(a_word, a_fieldNames, n) }
         \/ /\ a_variant = "word"
            /\ a_word \in { <<"t","e","s","t">>, <<"l","o","o","k"," ","u","p","/","d","o","w","n">> }
            /\ a_wordInfo \in { w \in WordInfos(n) : getField(w, "idiom") = Str(NA) }
            /\ a_fieldNames = FrontBack
            /\ a_audioFiles \in UNION { Orders(AudioList(a_word, a_fieldNames, k)) : k \in 0..(n + 1) }
         \/ /\ n = 1
            /\ a_variant = "word"
            /\ a_word \in { <<"t","e","s","t">>, <<"l","o","o","k"," ","u","p","/","d","o","w","n">>,
                            <<"a","\\","b"," "," ","c">> }
            /\ a_wordInfo \in ShapedInfos
            /\ a_fieldNames = FrontBack
            /\ a_audioFiles \in { <<>>, AudioList(a_word, a_fieldNames, 1),
                                  <<exampleAudioFile(a_word, a_fieldNames, 1)>> }
         \/ /\ n = 1
            /\ a_variant = "expression"
            /\ a_word = <<"l","o","o","k"," ","u","p","/","d","o","w","n">>
            /\ a_wordInfo \in ExpressionInfos
            /\ a_fieldNames = FrontBack
            /\ a_audioFiles = <<>>

\* one call of createAnkiFields
CreateAnkiFields ==
    /\ a_pc = "input"
    /\ IF createAnkiFieldsThrows(a_wordInfo,
                                 IF a_variant = "word"
                                 THEN {"idiom", "similar_words"}
                                 ELSE {"idiom", "derivatives", "similar_expressions"})
       THEN /\ a_pc' = "thrown"
            /\ UNCHANGED <<a_front, a_back, a_frontField, a_backField, a_fields>>
       ELSE /\ a_pc' = "done"
            /\ a_front' = front(a_word, a_wordInfo, a_audioFiles)
            /\ a_back' = IF a_variant = "word"
                         THEN back(a_word, a_wordInfo, a_audioFiles)
                         ELSE expressionBack(a_word, a_wordInfo, a_audioFiles)
            /\ a_frontField' = IF Len(a_fieldNames) >= 2 THEN frontField(a_fieldNames) ELSE <<>>
            /\ a_backField' = IF Len(a_fieldNames) >= 2 THEN backField(a_fieldNames) ELSE <<>>
            /\ a_fields' = IF a_variant = "word"
                           THEN createAnkiFields(a_word, a_wordInfo, a_fieldNames, a_audioFiles)
                           ELSE twoFieldMap(a_fieldNames,
                                            front(a_word, a_wordInfo, a_audioFiles),
                                            expressionBack(a_word, a_wordInfo, a_audioFiles))
    /\ UNCHANGED <<a_variant, a_word, a_wordInfo, a_fieldNames, a_audioFiles>>
    /\ UNCHANGED <<fetchVars, ankiVars, audioVars, mainVars, calls>>
    /\ UNCHANGED configVars

SpecAssemble == InitAssemble /\ [][CreateAnkiFields]_vars

----------------------------------------------------------------------------
(* Inputs of the content generation specification *)

Absent == [kind |-> "absent", val |-> <<>>]

\* the object with the keys of rec whose value is not Absent
ObjOf(rec) == Obj([k \in { k \in DOMAIN rec : rec[k].kind # "absent" } |-> rec[k]])

\* entries with a tag, and entries without one: for each rule of the
\* inference one that also satisfies a later rule
MeaningPool == { <<"[","n","o","u","n","]"," ","a"," ","t","r","i","a","l">>,
                 <<"[","p","r","e","p","]"," ","o","n">>,
                 <<"T","o"," ","a","c","t"," ","k","i","n","d","l","y">>,
                 <<"a"," ","s","t","a","t","e"," ","o","f"," ","b","e","i","n","g"," ","f","r","i","e","n","d","l","y">>,
                 <<"S","h","o","w","i","n","g"," ","s","k","i","l","l"," ","q","u","i","c","k","l","y">>,
                 <<"s","o","m","e"," ","a","c","t"," ","o","f"," ","t","e","s","t","i","n","g"," ","k","i","n","d","l","y">>,
                 <<"v","e","r","y"," ","q","u","i","c","k","l","y">>,
                 <<"g","o","o","d">>,
                 <<"g","o","o","d",","," ","f","i","n","e">>,
                 <<"o","n","e"," ","t","w","o"," ","t","h","r","e","e"," ","f","o","u","r"," ","f","i","v","e"," ","s","i","x">> }

\* english_meaning: absent, a string, a list holding a number, the empty
\* list, or a list of one entry
EnglishChoices ==
    { Arr(<<Str(m)>>) : m \in MeaningPool }
    \cup { Absent, Str(<<"a","n"," ","e","x","a","m">>), Arr(<<Num>>), Arr(<<>>) }

\* the longer lists of entries
LongMeaningLists ==
    { Arr(l) : l \in UNION { [1..n -> { Str(m) : m \in MeaningPool }] : n \in 2..MaxMeanings } }

JapaneseA == <<"s","h","i","k","e","n">>
JapaneseB == <<"k","e","n","s","a">>

\* what JSON.parse can return: null, a primitive, or an object with any of
\* the keys of the record; the longer lists come in a complete record
JsonData ==
    { Null, Num } \cup
    { ObjOf([english_meaning |-> en, japanese_meaning |-> ja, idiom |-> idiom,
             ipa |-> rest[1], example_sentence |-> rest[2], similar_words |-> rest[3]]) :
        en \in EnglishChoices,
        ja \in { Absent, Arr(<<Str(JapaneseB)>>) },
        idiom \in { Absent, Str(NA),
                    Arr(<< Obj([english |-> <<"put to the test">>, japanese |-> <<"tamesu">>]) >>) },
        rest \in { <<Absent, Absent, Absent>>,
                   <<Str(<<"/test/">>), Arr(Sentences(1)), Str(NA)>> } } \cup
    { ObjOf([english_meaning |-> en, japanese_meaning |-> Arr(<<Str(JapaneseB)>>),
             idiom |-> Arr(<< Obj([english |-> <<"put to the test">>, japanese |-> <<"tamesu">>]) >>),
             ipa |-> Str(<<"/test/">>), example_sentence |-> Arr(Sentences(1)),
             similar_words |-> Str(NA)]) :
        en \in LongMeaningLists }

\* outcomes of the chat completion call and of reading and parsing its content
Upstreams ==
    { [kind |-> k, data |-> Null] : k \in {"apiError", "noContent", "unparseable"} }
    \cup { [kind |-> "json", data |-> d] : d \in JsonData }

InitFetch ==
    /\ ConfigOff /\ AssembleOff /\ AnkiOff /\ AudioOff /\ MainOff /\ calls = <<>>
    /\ f_pc = "call"
    /\ f_method \in {"getWordInfo", "getWordInfoWithSpecificMeanings"}
    /\ f_upstream \in Upstreams
    /\ f_japaneseMeanings \in { <<Str(JapaneseA)>>, <<Str(JapaneseA), Str(JapaneseB)>> }
    /\ f_result = NoResult

\* fetcher.getWordInfo(word)
GetWordInfo ==
    /\ f_pc = "call" /\ f_method = "getWordInfo"
    /\ f_pc' = "done"
    /\ calls' = Append(calls, [action |-> "chat.completions.create", method |-> f_method])
    /\ f_result' = getWordInfo(f_upstream)
    /\ UNCHANGED <<f_method, f_upstream, f_japaneseMeanings>>
    /\ UNCHANGED <<assembleVars, ankiVars, audioVars, mainVars>>
    /\ UNCHANGED configVars

\* fetcher.getWordInfoWithSpecificMeanings(word, japaneseMeanings)
GetWordInfoWithSpecificMeanings ==
    /\ f_pc = "call" /\ f_method = "getWordInfoWithSpecificMeanings"
    /\ f_pc' = "done"
    /\ calls' = Append(calls, [action |-> "chat.completions.create", method |-> f_method])
    /\ f_result' = getWordInfoWithSpecificMeanings(f_upstream, f_japaneseMeanings)
    /\ UNCHANGED <<f_method, f_upstream, f_japaneseMeanings>>
    /\ UNCHANGED <<assembleVars, ankiVars, audioVars, mainVars>>
    /\ UNCHANGED configVars

SpecFetch == InitFetch /\ [][GetWordInfo \/ GetWordInfoWithSpecificMeanings]_vars

----------------------------------------------------------------------------
(* VocabularyFetcher.generateAudio and generateAudioFiles *)

Whitespace == {" ", "\t", "\n"}

\* String.prototype.trim
trim(s) ==
    LET kept == { i \in 1..Len(s) : s[i] \notin Whitespace }
    IN IF kept = {} THEN <<>>
       ELSE SubSeq(s, CHOOSE i \in kept : \A j \in kept : i <= j,
                      CHOOSE i \in kept : \A j \in kept : i >= j)

\* speed * 100, the prosody rate in percent
WordRate == 90
ExampleRate == 100

\* what pollyClient.send and the audio stream can do
SynthOutcomes == {"audio", "noStream", "sendError", "streamError"}

\* the SynthesizeSpeechCommand of one generateAudio call
synthesizeSpeech(text, voice, rate) ==
    [action |-> "SynthesizeSpeech", text |-> text, voice |-> voice, rate |-> rate]

\* generateAudio: the buffer, a PollyError for a failed send or a missing
\* stream, and the stream's own error when the stream fails while it is read
generateAudio(text, outcome) ==
    IF outcome = "audio" THEN Returned(<<"mp3:">> \o text)
    ELSE IF outcome = "streamError" THEN Thrown("Error")
    ELSE Thrown("PollyError")

\* a sentence that is kept: s.trim() && s.trim() !== "N/A"
spoken(s) == Len(trim(s)) > 0 /\ trim(s) # NA

\* sentencesOf with the kept sentences in the opposite order
sentencesOfReversed(exampleSentences) ==
    IF exampleSentences.kind = "string"
    THEN <<FALSE, IF spoken(exampleSentences.val) THEN <<trim(exampleSentences.val)>> ELSE <<>> >>
    ELSE IF exampleSentences.kind = "array"
    THEN IF \E i \in 1..Len(exampleSentences.val) : exampleSentences.val[i].kind # "string"
         THEN <<TRUE, <<>> >>
         ELSE LET kept == SelectSeq(exampleSentences.val, LAMBDA v : spoken(v.val))
              IN <<FALSE, [i \in 1..Len(kept) |-> kept[Len(kept) + 1 - i].val]>>
    ELSE <<FALSE, <<>> >>

\* the local sentences of generateAudioFiles: <<threw, sentences>>
sentencesOf(exampleSentences) ==
    IF exampleSentences.kind = "string"
    THEN <<FALSE, IF spoken(exampleSentences.val) THEN <<trim(exampleSentences.val)>> ELSE <<>> >>
    ELSE IF exampleSentences.kind = "array"
    THEN IF \E i \in 1..Len(exampleSentences.val) : exampleSentences.val[i].kind # "string"
         THEN <<TRUE, <<>> >>
         ELSE <<FALSE, [i \in 1..Len(SelectSeq(exampleSentences.val, LAMBDA v : spoken(v.val))) |->
                          SelectSeq(exampleSentences.val, LAMBDA v : spoken(v.val))[i].val]>>
    ELSE <<FALSE, <<>> >>

\* generateAudioFiles up to and including the preparation of sentences
GenerateWordAudio ==
    /\ p_pc = "call"
    /\ calls' = Append(calls, synthesizeSpeech(p_word, p_voice, WordRate))
    /\ \E outcome \in SynthOutcomes :
         LET audio == generateAudio(p_word, outcome)
             prepared == sentencesOf(p_exampleSentences)
         IN /\ p_audio' = audio
            /\ IF audio.outcome = "thrown" \/ prepared[1]
               THEN /\ p_result' = Thrown("PollyError")
                    /\ p_pc' = "done"
                    /\ UNCHANGED <<p_sentences, p_wordAudio>>
               ELSE /\ p_wordAudio' = audio.data
                    /\ p_sentences' = prepared[2]
                    /\ IF Len(prepared[2]) = 0
                       THEN /\ p_pc' = "done"
                            /\ p_result' = Returned([wordAudio |-> audio.data,
                                                     exampleAudios |-> <<>>])
                       ELSE p_pc' = "examples" /\ p_result' = NoResult
    /\ UNCHANGED <<p_word, p_exampleSentences, p_voice, p_exampleAudios>>
    /\ UNCHANGED <<assembleVars, fetchVars, ankiVars, mainVars>>
    /\ UNCHANGED configVars

\* GenerateExampleAudio giving its caller the audio made so far when a
\* sentence fails
GenerateExampleAudioKeepingEarlier ==
    /\ p_pc = "examples"
    /\ LET i == Len(p_exampleAudios)
           sentence == p_sentences[i + 1]
       IN /\ calls' = Append(calls, synthesizeSpeech(sentence, p_voice, ExampleRate))
          /\ \E outcome \in SynthOutcomes :
               LET audio == generateAudio(sentence, outcome)
                   pushed == Append(p_exampleAudios,
                                    [index |-> i, sentence |-> sentence, audio |-> audio.data])
               IN /\ p_audio' = audio
                  /\ IF audio.outcome = "thrown"
                     THEN /\ p_result' = Returned([wordAudio |-> p_wordAudio,
                                                   exampleAudios |-> p_exampleAudios])
                          /\ p_pc' = "done"
                          /\ UNCHANGED p_exampleAudios
                     ELSE /\ p_exampleAudios' = pushed
                          /\ IF i + 1 = Len(p_sentences)
                             THEN /\ p_pc' = "done"
                                  /\ p_result' = Returned([wordAudio |-> p_wordAudio,
                                                           exampleAudios |-> pushed])
                             ELSE UNCHANGED <<p_pc, p_result>>
    /\ UNCHANGED <<p_word, p_exampleSentences, p_voice, p_sentences, p_wordAudio>>
    /\ UNCHANGED <<assembleVars, fetchVars, ankiVars, mainVars>>
    /\ UNCHANGED configVars

\* one round of the loop over sentences, and the return after the last one
GenerateExampleAudio ==
    /\ p_pc = "examples"
    /\ LET i == Len(p_exampleAudios)
           sentence == p_sentences[i + 1]
       IN /\ calls' = Append(calls, synthesizeSpeech(sentence, p_voice, ExampleRate))
          /\ \E outcome \in SynthOutcomes :
               LET audio == generateAudio(sentence, outcome)
                   pushed == Append(p_exampleAudios,
                                    [index |-> i, sentence |-> sentence, audio |-> audio.data])
               IN /\ p_audio' = audio
                  /\ IF audio.outcome = "thrown"
                     THEN /\ p_result' = Thrown("PollyError")
                          /\ p_pc' = "done"
                          /\ UNCHANGED p_exampleAudios
                     ELSE /\ p_exampleAudios' = pushed
                          /\ IF i + 1 = Len(p_sentences)
                             THEN /\ p_pc' = "done"
                                  /\ p_result' = Returned([wordAudio |-> p_wordAudio,
                                                           exampleAudios |-> pushed])
                             ELSE UNCHANGED <<p_pc, p_result>>
    /\ UNCHANGED <<p_word, p_exampleSentences, p_voice, p_sentences, p_wordAudio>>
    /\ UNCHANGED <<assembleVars, fetchVars, ankiVars, mainVars>>
    /\ UNCHANGED configVars

----------------------------------------------------------------------------
(* AnkiConnector *)

createRequest(action, params) == [action |-> action, params |-> params, version |-> 6]

\* invoke without the test of data.error
invokeIgnoringError(response) ==
    IF response.kind = "axiosError" THEN Thrown("AnkiConnectionError")
    ELSE LET data == response.data IN
         IF data.type # "object" THEN Thrown("AnkiConnectionError")
         ELSE IF "error" \notin data.keys THEN Thrown("AnkiConnectionError")
         ELSE IF "result" \notin data.keys THEN Thrown("AnkiConnectionError")
         ELSE Returned(data.result)

\* AnkiConnector.invoke, given what axios.post produced
invoke(response) ==
    IF response.kind = "axiosError" THEN Thrown("AnkiConnectionError")
    ELSE LET data == response.data IN
         IF data.type # "object" THEN Thrown("AnkiConnectionError")
         ELSE IF "error" \notin data.keys THEN Thrown("AnkiConnectionError")
         ELSE IF "result" \notin data.keys THEN Thrown("AnkiConnectionError")
         ELSE IF data.error.kind # "null" THEN Thrown("AnkiConnectionError")
         ELSE Returned(data.result)

\* the note that addNote sends
note(args) ==
    [deckName |-> args.deckName, modelName |-> args.modelName, fields |-> args.fields,
     options |-> [allowDuplicate |-> FALSE, duplicateScope |-> "deck"]]
    @@ (IF Len(args.tags) > 0 THEN [tags |-> args.tags] ELSE <<>>)
    @@ (IF Len(args.audio) > 0 THEN [audio |-> args.audio] ELSE <<>>)

\* what the methods hand to invoke, and the results AnkiConnect gives
DeckName == <<"English Vocabulary">>
ModelName == <<"Basic (and reversed card)">>

ModelNameLists == { <<ModelName, <<"Cloze">> >>, << <<"Cloze">> >> }
ModelFieldLists == { FrontBack,
                     << <<"B","a","c","k">>, <<"E","x","t","r","a">> >>,
                     << <<"T","e","x","t">> >> }
DeckNameLists == { << <<"Default">>, DeckName >>, << <<"Default">> >> }
NoteIdLists == { [i \in 1..n |-> 1000 + i] : n \in 0..MaxNotes }

\* what axios.post(url, request) can produce: a failure of the connection or
\* of the HTTP exchange, or a response whose data is falsy, a string that is
\* not JSON, or an object with any of the keys result and error
Responses(results) ==
    { [kind |-> "axiosError"],
      [kind |-> "response", data |-> [type |-> "empty"]],
      [kind |-> "response", data |-> [type |-> "string"]] }
    \cup { [kind |-> "response",
            data |-> [type |-> "object", keys |-> keys,
                      result |-> IF "result" \in keys THEN result ELSE Undefined,
                      error |-> IF "error" \in keys THEN error ELSE Undefined]] :
             keys \in SUBSET {"result", "error"}, result \in results,
             error \in { Null, Str(<<>>), Str(<<"deck was not found">>) } }

\* one await of this.invoke(action, params)
Invoke(action, params, response) ==
    /\ calls' = Append(calls, createRequest(action, params))
    /\ k_response' = response

\* getModelNames()
GetModelNames ==
    /\ k_pc = "call" /\ k_op = "getModelNames"
    /\ \E response \in Responses(ModelNameLists) :
         /\ Invoke("modelNames", <<>>, response)
         /\ k_result' = invoke(response)
    /\ k_pc' = "done"
    /\ UNCHANGED <<k_op, k_args>>
    /\ UNCHANGED <<assembleVars, fetchVars, audioVars, mainVars>>
    /\ UNCHANGED configVars

\* getModelFieldNames(modelName)
GetModelFieldNames ==
    /\ k_pc = "call" /\ k_op = "getModelFieldNames"
    /\ \E response \in Responses(ModelFieldLists) :
         /\ Invoke("modelFieldNames", [modelName |-> k_args.modelName], response)
         /\ k_result' = invoke(response)
    /\ k_pc' = "done"
    /\ UNCHANGED <<k_op, k_args>>
    /\ UNCHANGED <<assembleVars, fetchVars, audioVars, mainVars>>
    /\ UNCHANGED configVars

\* findNotes(query)
FindNotes ==
    /\ k_pc = "call" /\ k_op = "findNotes"
    /\ \E response \in Responses(NoteIdLists) :
         /\ Invoke("findNotes", [query |-> k_args.query], response)
         /\ k_result' = invoke(response)
    /\ k_pc' = "done"
    /\ UNCHANGED <<k_op, k_args>>
    /\ UNCHANGED <<assembleVars, fetchVars, audioVars, mainVars>>
    /\ UNCHANGED configVars

\* notesInfo(noteIds)
NotesInfo ==
    /\ k_pc = "call" /\ k_op = "notesInfo"
    /\ \E response \in Responses({ [i \in 1..Len(k_args.noteIds) |-> [noteId |-> k_args.noteIds[i]]] }) :
         /\ Invoke("notesInfo", [notes |-> k_args.noteIds], response)
         /\ k_result' = invoke(response)
    /\ k_pc' = "done"
    /\ UNCHANGED <<k_op, k_args>>
    /\ UNCHANGED <<assembleVars, fetchVars, audioVars, mainVars>>
    /\ UNCHANGED configVars

\* deleteNotes awaits invoke and returns nothing
DeleteNotes ==
    /\ k_pc = "call" /\ k_op = "deleteNotes"
    /\ \E response \in Responses({Null}) :
         /\ Invoke("deleteNotes", [notes |-> k_args.noteIds], response)
         /\ k_result' = IF invoke(response).outcome = "returned"
                        THEN Returned(Undefined)
                        ELSE invoke(response)
    /\ k_pc' = "done"
    /\ UNCHANGED <<k_op, k_args>>
    /\ UNCHANGED <<assembleVars, fetchVars, audioVars, mainVars>>
    /\ UNCHANGED configVars

\* addNote goes on to its note when the deck names could not be listed
GetDeckNamesFailureIgnored ==
    /\ k_pc = "call" /\ k_op \in {"getDeckNames", "addNote"}
    /\ \E response \in Responses(DeckNameLists) :
         /\ Invoke("deckNames", <<>>, response)
         /\ IF k_op = "getDeckNames"
            THEN k_pc' = "done" /\ k_result' = invoke(response)
            ELSE /\ k_result' = NoResult
                 /\ k_pc' = IF invoke(response).outcome = "thrown"
                            THEN "addNote"
                            ELSE IF \E i \in DOMAIN invoke(response).data :
                                       invoke(response).data[i] = k_args.deckName
                            THEN "addNote"
                            ELSE "createDeck"
    /\ UNCHANGED <<k_op, k_args>>
    /\ UNCHANGED <<assembleVars, fetchVars, audioVars, mainVars>>
    /\ UNCHANGED configVars

\* getDeckNames, called by itself or as the first await of addNote
GetDeckNames ==
    /\ k_pc = "call" /\ k_op \in {"getDeckNames", "addNote"}
    /\ \E response \in Responses(DeckNameLists) :
         /\ Invoke("deckNames", <<>>, response)
         /\ IF k_op = "getDeckNames" \/ invoke(response).outcome = "thrown"
            THEN k_pc' = "done" /\ k_result' = invoke(response)
            ELSE /\ k_result' = NoResult
                 /\ k_pc' = IF \E i \in DOMAIN invoke(response).data :
                                  invoke(response).data[i] = k_args.deckName
                            THEN "addNote"
                            ELSE "createDeck"
    /\ UNCHANGED <<k_op, k_args>>
    /\ UNCHANGED <<assembleVars, fetchVars, audioVars, mainVars>>
    /\ UNCHANGED configVars

\* createDeck, called by itself or by addNote for a deck that does not exist
CreateDeck ==
    /\ <<k_pc, k_op>> \in { <<"call", "createDeck">>, <<"createDeck", "addNote">> }
    /\ \E response \in Responses({2001}) :
         /\ Invoke("createDeck", [deck |-> k_args.deckName], response)
         /\ IF k_op = "createDeck" \/ invoke(response).outcome = "thrown"
            THEN k_pc' = "done" /\ k_result' = invoke(response)
            ELSE k_pc' = "addNote" /\ k_result' = NoResult
    /\ UNCHANGED <<k_op, k_args>>
    /\ UNCHANGED <<assembleVars, fetchVars, audioVars, mainVars>>
    /\ UNCHANGED configVars

\* the rest of addNote: build the note and send it
AddNote ==
    /\ k_pc = "addNote"
    /\ \E response \in Responses({3001}) :
         /\ Invoke("addNote", [note |-> note(k_args)], response)
         /\ k_result' = invoke(response)
    /\ k_pc' = "done"
    /\ UNCHANGED <<k_op, k_args>>
    /\ UNCHANGED <<assembleVars, fetchVars, audioVars, mainVars>>
    /\ UNCHANGED configVars

NextAnki ==
    \/ GetModelNames \/ GetModelFieldNames \/ GetDeckNames \/ CreateDeck
    \/ FindNotes \/ NotesInfo \/ DeleteNotes \/ AddNote

\* the calls a client of AnkiConnector can make
MethodCalls ==
    { [op |-> "getModelNames", args |-> <<>>],
      [op |-> "getDeckNames", args |-> <<>>],
      [op |-> "getModelFieldNames", args |-> [modelName |-> ModelName]],
      [op |-> "createDeck", args |-> [deckName |-> DeckName]],
      [op |-> "findNotes", args |-> [query |-> <<"\"test\"">>]] }
    \cup { [op |-> op, args |-> [noteIds |-> ids]] :
             op \in {"notesInfo", "deleteNotes"}, ids \in NoteIdLists \ {<<>>} }
    \cup { [op |-> "addNote",
            args |-> [deckName |-> DeckName, modelName |-> ModelName,
                      fields |-> (<<"F","r","o","n","t">> :> <<"test">>)
                                 @@ (<<"B","a","c","k">> :> <<"shiken">>),
                      tags |-> tags, audio |-> audio]] :
             tags \in { <<>>, << <<"vocabulary">> >> },
             audio \in { <<>>,
                     << [filename |-> <<"w","o","r","d","_","t","e","s","t",".","m","p","3">>,
                     data |-> <<"base64">>, fields |-> << <<"F","r","o","n","t">> >>] >> } }

InitAnki ==
    /\ ConfigOff /\ AssembleOff /\ FetchOff /\ AudioOff /\ MainOff /\ calls = <<>>
    /\ k_pc = "call"
    /\ \E c \in MethodCalls : k_op = c.op /\ k_args = c.args
    /\ k_response = <<>>
    /\ k_result = NoResult

SpecAnki == InitAnki /\ [][NextAnki]_vars

----------------------------------------------------------------------------
(* The command line (index.ts main) and the interactive session *)

\* String.prototype.split for a one-character separator
RECURSIVE split(_, _)
split(s, sep) ==
    IF \A i \in 1..Len(s) : s[i] # sep THEN <<s>>
    ELSE LET i == CHOOSE i \in 1..Len(s) : s[i] = sep /\ \A j \in 1..(i - 1) : s[j] # sep
         IN <<SubSeq(s, 1, i - 1)>> \o split(SubSeq(s, i + 1, Len(s)), sep)

\* s.split(/\s+/) of a trimmed, non-empty string
splitWhitespace(s) ==
    SelectSeq(split([i \in 1..Len(s) |-> IF s[i] \in Whitespace THEN " " ELSE s[i]], " "),
              LAMBDA part : Len(part) > 0)

parseJapaneseMeanings(meaningsStr) ==
    IF meaningsStr.kind # "string" \/ Len(trim(meaningsStr.val)) = 0 THEN <<>>
    ELSE LET meanings == [i \in 1..Len(split(meaningsStr.val, ",")) |->
                            trim(split(meaningsStr.val, ",")[i])]
         IN SelectSeq(meanings, LAMBDA meaning : Len(meaning) > 0)

\* commander: program.opts() of a command line; --no-audio is a negatable
\* option and sets the key audio
opts(argv) ==
    [config |-> "--config" \in argv.flags,
     interactive |-> "--interactive" \in argv.flags,
     delete |-> "--delete" \in argv.flags,
     audio |-> "--no-audio" \notin argv.flags,
     japaneseMeaning |-> argv.japaneseMeaning]

\* options.noAudio || false
noAudio(options) == "noAudio" \in DOMAIN options /\ options["noAudio"]

interactive == opts(m_argv).interactive

\* `"${word}" deck:"${deckName}"`
query(word, deckName) == <<"\"">> \o word \o <<"\" deck:\"">> \o deckName \o <<"\"">>

\* the audio files list built from the result of generateAudioFiles
audioFilesOf(word, fieldNames, audioResult) ==
    << wordAudioFile(word, fieldNames) @@ [data |-> audioResult.wordAudio] >>
    \o [i \in 1..Len(audioResult.exampleAudios) |->
          exampleAudioFile(word, fieldNames, audioResult.exampleAudios[i].index + 1)
          @@ [data |-> audioResult.exampleAudios[i].audio]]

\* what the content generation service answers during a session
SessionUpstreams ==
    { [kind |-> "apiError", data |-> Null] }
    \cup { [kind |-> "json",
            data |-> Obj([english_meaning |-> Arr(<<Str(MeaningNoun)>>),
                    japanese_meaning |-> Arr(<<Str(JapaneseB)>>), ipa |-> Str(<<"/test/">>),
                    idiom |-> Str(NA), similar_words |-> Str(NA), example_sentence |-> examples])] :
             examples \in { Arr(Sentences(2)),
                            Arr(<<Str(NA), Str(Sentence(2))>>),
                            Str(Sentence(1)),
                            Arr(<<Num>>) } }

\* the start of a call of another component ("call", "input"), or the end of
\* the command that made it ("off")
SetAnki(pc, op, args) ==
    /\ k_pc' = pc /\ k_op' = op /\ k_args' = args
    /\ k_response' = <<>> /\ k_result' = NoResult

CallFetch(japaneseMeanings) ==
    /\ f_pc' = "call"
    /\ f_method' = IF Len(japaneseMeanings) > 0
                   THEN "getWordInfoWithSpecificMeanings"
                   ELSE "getWordInfo"
    /\ f_japaneseMeanings' = [i \in 1..Len(japaneseMeanings) |-> Str(japaneseMeanings[i])]
    /\ f_upstream' \in SessionUpstreams
    /\ f_result' = NoResult

SetAudio(pc, word, exampleSentences, voice) ==
    /\ p_pc' = pc /\ p_word' = word /\ p_exampleSentences' = exampleSentences
    /\ p_voice' = voice /\ p_sentences' = <<>> /\ p_wordAudio' = <<>>
    /\ p_exampleAudios' = <<>> /\ p_audio' = NoResult /\ p_result' = NoResult

SetAssemble(pc, word, wordInfo, fieldNames, audioFiles) ==
    /\ a_pc' = pc /\ a_variant' = a_variant /\ a_word' = word /\ a_wordInfo' = wordInfo
    /\ a_fieldNames' = fieldNames /\ a_audioFiles' = audioFiles
    /\ a_front' = <<>> /\ a_back' = <<>> /\ a_frontField' = <<>> /\ a_backField' = <<>>
    /\ a_fields' = <<>>

\* the locals of the previous command are gone
ForgetFetch ==
    /\ f_pc' = "off" /\ f_method' = "" /\ f_japaneseMeanings' = <<>>
    /\ f_upstream' = <<>> /\ f_result' = NoResult

\* process.exit(code), or the return of main / of start, whose finally closes
\* the input interface of the session
Stop(how) ==
    /\ m_pc' = "end" /\ m_exit' = how
    /\ m_rl' = IF m_rl = "open" THEN "closed" ELSE m_rl

\* a request that ends takes the session with it
DoneEndingTheSession(how) == Stop(how)

\* the end of a request: the process ends, or the session prompts again
Done(how) ==
    IF interactive THEN m_pc' = "prompt" /\ UNCHANGED <<m_exit, m_rl>> ELSE Stop(how)

\* what the user types at the prompt of the session, and at (y/N)
InputLines == { <<"a","d","d"," ","t","e","s","t">>,
               <<"A","D","D"," ","t","e","s","t"," ","s","h","i","k","e","n",","," ","k","e","n","s","a">>,
               <<"a","d","d">>,
               <<"d","e","l","e","t","e"," ","t","e","s","t">>,
               <<"D","e","l","e","t","e">>,
               <<"h","e","l","p">>,
               <<"q","u","i","t">>,
               <<"E","X","I","T">>,
               <<>>,
               <<" "," ">>,
               <<"l","i","s","t">> }

Answers == { <<"y">>,
             <<"Y">>,
             <<"n">>,
             <<>>,
             <<"y","e","s">>,
             <<" ","y">> }

HeadWord == <<"t","e","s","t">>

CommandLines ==
    { [flags |-> {"--config"}, word |-> Undefined, japaneseMeaning |-> Undefined],
      [flags |-> {}, word |-> Undefined, japaneseMeaning |-> Undefined],
      [flags |-> {}, word |-> Str(HeadWord), japaneseMeaning |-> Undefined],
      [flags |-> {"--no-audio"}, word |-> Str(HeadWord), japaneseMeaning |-> Undefined],
      [flags |-> {}, word |-> Str(HeadWord),
       japaneseMeaning |-> Str(<<"s","h","i","k","e","n",",","k","e","n","s","a">>)],
      [flags |-> {}, word |-> Str(HeadWord), japaneseMeaning |-> Str(<<" ",","," ">>)],
      [flags |-> {"--delete"}, word |-> Str(HeadWord), japaneseMeaning |-> Undefined],
      [flags |-> {"--interactive"}, word |-> Undefined, japaneseMeaning |-> Undefined],
      [flags |-> {"--interactive", "--no-audio"}, word |-> Undefined,
       japaneseMeaning |-> Undefined] }

Init ==
    /\ ConfigOff /\ AssembleOff /\ FetchOff /\ AnkiOff /\ AudioOff /\ calls = <<>>
    /\ m_pc = "main"
    /\ m_argv \in CommandLines
    /\ m_apiKey \in BOOLEAN
    /\ m_fieldNames = <<>> /\ m_parts = <<>> /\ m_word = <<>> /\ m_noteIds = <<>>
    /\ m_confirm = <<>> /\ m_audioFiles = <<>> /\ m_exit = "" /\ m_rl = "none"

\* main up to its first await
Main ==
    /\ m_pc = "main"
    /\ LET options == opts(m_argv)
       IN IF options.config
          THEN Stop("return") /\ UNCHANGED <<m_word, ankiVars>>
          ELSE IF options.interactive
          THEN /\ SetAnki("call", "getModelNames", <<>>)
               /\ m_pc' = "getModelNames"
               /\ m_rl' = "open"
               /\ UNCHANGED <<m_word, m_exit>>
          ELSE IF ~truthy(m_argv.word)
          THEN Stop("exit(1)") /\ UNCHANGED <<m_word, ankiVars>>
          ELSE IF options.delete
          THEN /\ SetAnki("call", "findNotes", [query |-> query(m_argv.word.val, DeckName)])
               /\ m_pc' = "findNotes"
               /\ m_word' = m_argv.word.val
               /\ UNCHANGED <<m_exit, m_rl>>
          ELSE IF ~m_apiKey
          THEN Stop("exit(1)") /\ UNCHANGED <<m_word, ankiVars>>
          ELSE /\ SetAnki("call", "getModelNames", <<>>)
               /\ m_pc' = "getModelNames"
               /\ m_word' = m_argv.word.val
               /\ UNCHANGED <<m_exit, m_rl>>
    /\ UNCHANGED <<m_argv, m_apiKey, m_fieldNames, m_parts, m_noteIds, m_confirm, m_audioFiles>>
    /\ UNCHANGED <<assembleVars, fetchVars, audioVars, calls>>
    /\ UNCHANGED configVars

\* the model check of main and of InteractiveSession.start
AfterGetModelNames ==
    /\ m_pc = "getModelNames" /\ k_pc = "done"
    /\ IF k_result.outcome = "thrown"
          \/ \A i \in DOMAIN k_result.data : k_result.data[i] # ModelName
       THEN Stop(IF interactive THEN "return" ELSE "exit(1)") /\ UNCHANGED ankiVars
       ELSE /\ SetAnki("call", "getModelFieldNames", [modelName |-> ModelName])
            /\ m_pc' = "getModelFieldNames"
            /\ UNCHANGED <<m_exit, m_rl>>
    /\ UNCHANGED <<m_argv, m_apiKey, m_fieldNames, m_parts, m_word, m_noteIds, m_confirm,
                   m_audioFiles>>
    /\ UNCHANGED <<assembleVars, fetchVars, audioVars, calls>>
    /\ UNCHANGED configVars

\* the field names arrive: main goes on to fetch, the session to its prompt
AfterGetModelFieldNames ==
    /\ m_pc = "getModelFieldNames" /\ k_pc = "done"
    /\ IF k_result.outcome = "thrown"
       THEN /\ Stop(IF interactive THEN "return" ELSE "exit(1)")
            /\ UNCHANGED <<m_fieldNames, fetchVars>>
       ELSE /\ m_fieldNames' = k_result.data
            /\ IF interactive
               THEN /\ IF m_apiKey THEN m_pc' = "prompt" /\ UNCHANGED <<m_exit, m_rl>>
                                   ELSE Stop("return")
                    /\ UNCHANGED fetchVars
               ELSE /\ CallFetch(IF truthy(opts(m_argv).japaneseMeaning)
                                 THEN parseJapaneseMeanings(opts(m_argv).japaneseMeaning)
                                 ELSE <<>>)
                    /\ m_pc' = "fetch"
                    /\ UNCHANGED <<m_exit, m_rl>>
    /\ UNCHANGED <<m_argv, m_apiKey, m_parts, m_word, m_noteIds, m_confirm, m_audioFiles>>
    /\ UNCHANGED <<assembleVars, ankiVars, audioVars, calls>>
    /\ UNCHANGED configVars

\* one round of interactiveLoop up to the first await of the command
Prompt ==
    /\ m_pc = "prompt"
    /\ \E userInput \in InputLines :
         LET parts == IF Len(trim(userInput)) = 0 THEN <<>>
                      ELSE splitWhitespace(trim(userInput))
             command == IF Len(parts) = 0 THEN <<>> ELSE toLowerCase(parts[1])
             adds == command = <<"a","d","d">> /\ Len(parts) >= 2
             deletes == command = <<"d","e","l","e","t","e">> /\ Len(parts) >= 2
         IN /\ m_parts' = parts
            /\ m_word' = IF adds \/ deletes THEN parts[2] ELSE <<>>
            /\ IF command \in { <<"q","u","i","t">>, <<"e","x","i","t">> }
               THEN Stop("return")
               ELSE /\ m_pc' = IF adds THEN "fetch" ELSE IF deletes THEN "findNotes" ELSE "prompt"
                    /\ UNCHANGED <<m_exit, m_rl>>
            /\ IF adds
               THEN CallFetch(IF Len(parts) >= 3
                              THEN parseJapaneseMeanings(
                                       Str(join(SubSeq(parts, 3, Len(parts)), <<" ">>)))
                              ELSE <<>>)
               ELSE ForgetFetch
            /\ IF deletes
               THEN SetAnki("call", "findNotes", [query |-> query(parts[2], DeckName)])
               ELSE SetAnki("off", "", <<>>)
    /\ SetAudio("off", <<>>, <<>>, <<>>)
    /\ SetAssemble("off", <<>>, <<>>, <<>>, <<>>)
    /\ calls' = <<>>
    /\ m_noteIds' = <<>> /\ m_confirm' = <<>> /\ m_audioFiles' = <<>>
    /\ UNCHANGED <<m_argv, m_apiKey, m_fieldNames>>
    /\ UNCHANGED configVars

\* AfterFetch with a failed content generation treated as an empty record
AfterFetchIgnoringFailure ==
    /\ m_pc = "fetch" /\ f_pc = "done"
    /\ IF f_result.outcome = "thrown"
       THEN /\ SetAssemble("input", m_word, Obj(<<>>), m_fieldNames, <<>>)
            /\ m_pc' = "createAnkiFields"
            /\ UNCHANGED <<m_exit, m_rl, audioVars>>
       ELSE IF ~noAudio(opts(m_argv))
       THEN /\ SetAudio("call", m_word, getField(f_result.data, "example_sentence"),
                                      <<"Matthew">>)
            /\ m_pc' = "generateAudioFiles"
            /\ UNCHANGED <<m_exit, m_rl, assembleVars>>
       ELSE /\ SetAssemble("input", m_word, f_result.data, m_fieldNames, <<>>)
            /\ m_pc' = "createAnkiFields"
            /\ UNCHANGED <<m_exit, m_rl, audioVars>>
    /\ UNCHANGED <<m_argv, m_apiKey, m_fieldNames, m_parts, m_word, m_noteIds, m_confirm,
                   m_audioFiles>>
    /\ UNCHANGED <<fetchVars, ankiVars, calls>>
    /\ UNCHANGED configVars

\* the record arrives: audio is generated unless it is disabled
AfterFetch ==
    /\ m_pc = "fetch" /\ f_pc = "done"
    /\ IF f_result.outcome = "thrown"
       THEN Done("exit(1)") /\ UNCHANGED <<audioVars, assembleVars>>
       ELSE IF ~noAudio(opts(m_argv))
       THEN /\ SetAudio("call", m_word, getField(f_result.data, "example_sentence"),
                                      <<"Matthew">>)
            /\ m_pc' = "generateAudioFiles"
            /\ UNCHANGED <<m_exit, m_rl, assembleVars>>
       ELSE /\ SetAssemble("input", m_word, f_result.data, m_fieldNames, <<>>)
            /\ m_pc' = "createAnkiFields"
            /\ UNCHANGED <<m_exit, m_rl, audioVars>>
    /\ UNCHANGED <<m_argv, m_apiKey, m_fieldNames, m_parts, m_word, m_noteIds, m_confirm,
                   m_audioFiles>>
    /\ UNCHANGED <<fetchVars, ankiVars, calls>>
    /\ UNCHANGED configVars

\* AfterGenerateAudioFiles with a failure of the audio ending the request
AfterGenerateAudioFilesOrAbort ==
    /\ m_pc = "generateAudioFiles" /\ p_pc = "done"
    /\ IF p_result.outcome = "returned"
       THEN /\ m_audioFiles' = audioFilesOf(m_word, m_fieldNames, p_result.data)
            /\ SetAssemble("input", m_word, f_result.data, m_fieldNames,
                                    audioFilesOf(m_word, m_fieldNames, p_result.data))
            /\ m_pc' = "createAnkiFields"
            /\ UNCHANGED <<m_exit, m_rl>>
       ELSE Done("exit(1)") /\ UNCHANGED <<m_audioFiles, assembleVars>>
    /\ UNCHANGED <<m_argv, m_apiKey, m_fieldNames, m_parts, m_word, m_noteIds, m_confirm>>
    /\ UNCHANGED <<fetchVars, ankiVars, audioVars, calls>>
    /\ UNCHANGED configVars

\* the audio arrives, or its generation failed: the card is assembled
AfterGenerateAudioFiles ==
    /\ m_pc = "generateAudioFiles" /\ p_pc = "done"
    /\ LET audioFiles == IF p_result.outcome = "returned"
                         THEN audioFilesOf(m_word, m_fieldNames, p_result.data)
                         ELSE <<>>
       IN /\ m_audioFiles' = audioFiles
          /\ SetAssemble("input", m_word, f_result.data, m_fieldNames, audioFiles)
    /\ m_pc' = "createAnkiFields"
    /\ UNCHANGED <<m_argv, m_apiKey, m_fieldNames, m_parts, m_word, m_noteIds, m_confirm,
                   m_exit, m_rl>>
    /\ UNCHANGED <<fetchVars, ankiVars, audioVars, calls>>
    /\ UNCHANGED configVars

\* the fields are assembled: the note is sent; an exception of the assembly
\* ends the request
AfterCreateAnkiFields ==
    /\ m_pc = "createAnkiFields" /\ a_pc \in {"done", "thrown"}
    /\ IF a_pc = "thrown"
       THEN Done("exit(1)") /\ UNCHANGED ankiVars
       ELSE /\ SetAnki("call", "addNote", [deckName |-> DeckName, modelName |-> ModelName,
                            fields |-> a_fields,
                            tags |-> << <<"english">>, <<"vocabulary">>, <<"ai-generated">> >>,
                            audio |-> m_audioFiles])
            /\ m_pc' = "addNote"
            /\ UNCHANGED <<m_exit, m_rl>>
    /\ UNCHANGED <<m_argv, m_apiKey, m_fieldNames, m_parts, m_word, m_noteIds, m_confirm,
                   m_audioFiles>>
    /\ UNCHANGED <<assembleVars, fetchVars, audioVars, calls>>
    /\ UNCHANGED configVars

AfterAddNote ==
    /\ m_pc = "addNote" /\ k_pc = "done"
    /\ Done(IF k_result.outcome = "thrown" THEN "exit(1)" ELSE "return")
    /\ UNCHANGED <<m_argv, m_apiKey, m_fieldNames, m_parts, m_word, m_noteIds, m_confirm,
                   m_audioFiles>>
    /\ UNCHANGED <<assembleVars, fetchVars, ankiVars, audioVars, calls>>
    /\ UNCHANGED configVars

\* delete: the search result arrives
AfterFindNotes ==
    /\ m_pc = "findNotes" /\ k_pc = "done"
    /\ IF k_result.outcome = "thrown"
       THEN Done("exit(1)") /\ UNCHANGED <<m_noteIds, ankiVars>>
       ELSE /\ m_noteIds' = k_result.data
            /\ IF Len(k_result.data) = 0
               THEN Done("exit(0)") /\ UNCHANGED ankiVars
               ELSE /\ SetAnki("call", "notesInfo", [noteIds |-> k_result.data])
                    /\ m_pc' = "notesInfo"
                    /\ UNCHANGED <<m_exit, m_rl>>
    /\ UNCHANGED <<m_argv, m_apiKey, m_fieldNames, m_parts, m_word, m_confirm, m_audioFiles>>
    /\ UNCHANGED <<assembleVars, fetchVars, audioVars, calls>>
    /\ UNCHANGED configVars

\* delete: the notes are listed and the confirmation question is asked
AfterNotesInfo ==
    /\ m_pc = "notesInfo" /\ k_pc = "done"
    /\ IF k_result.outcome = "thrown"
       THEN Done("exit(1)")
       ELSE m_pc' = "confirm" /\ UNCHANGED <<m_exit, m_rl>>
    /\ UNCHANGED <<m_argv, m_apiKey, m_fieldNames, m_parts, m_word, m_noteIds, m_confirm,
                   m_audioFiles>>
    /\ UNCHANGED <<assembleVars, fetchVars, ankiVars, audioVars, calls>>
    /\ UNCHANGED configVars

\* Confirm with every answer that starts with y taken as a yes
ConfirmByFirstLetter ==
    /\ m_pc = "confirm"
    /\ \E confirm \in Answers :
         /\ m_confirm' = confirm
         /\ IF startsWith(toLowerCase(confirm), <<"y">>)
            THEN /\ SetAnki("call", "deleteNotes", [noteIds |-> m_noteIds])
                 /\ m_pc' = "deleteNotes"
                 /\ UNCHANGED <<m_exit, m_rl>>
            ELSE Done("exit(0)") /\ UNCHANGED ankiVars
    /\ UNCHANGED <<m_argv, m_apiKey, m_fieldNames, m_parts, m_word, m_noteIds, m_audioFiles>>
    /\ UNCHANGED <<assembleVars, fetchVars, audioVars, calls>>
    /\ UNCHANGED configVars

\* delete: the user answers
Confirm ==
    /\ m_pc = "confirm"
    /\ \E confirm \in Answers :
         /\ m_confirm' = confirm
         /\ IF toLowerCase(confirm) = <<"y">>
            THEN /\ SetAnki("call", "deleteNotes", [noteIds |-> m_noteIds])
                 /\ m_pc' = "deleteNotes"
                 /\ UNCHANGED <<m_exit, m_rl>>
            ELSE Done("exit(0)") /\ UNCHANGED ankiVars
    /\ UNCHANGED <<m_argv, m_apiKey, m_fieldNames, m_parts, m_word, m_noteIds, m_audioFiles>>
    /\ UNCHANGED <<assembleVars, fetchVars, audioVars, calls>>
    /\ UNCHANGED configVars

AfterDeleteNotes ==
    /\ m_pc = "deleteNotes" /\ k_pc = "done"
    /\ Done(IF k_result.outcome = "thrown" THEN "exit(1)" ELSE "exit(0)")
    /\ UNCHANGED <<m_argv, m_apiKey, m_fieldNames, m_parts, m_word, m_noteIds, m_confirm,
                   m_audioFiles>>
    /\ UNCHANGED <<assembleVars, fetchVars, ankiVars, audioVars, calls>>
    /\ UNCHANGED configVars

Next ==
    \/ Main \/ AfterGetModelNames \/ AfterGetModelFieldNames \/ Prompt
    \/ AfterFetch \/ AfterGenerateAudioFiles \/ AfterCreateAnkiFields \/ AfterAddNote
    \/ AfterFindNotes \/ AfterNotesInfo \/ Confirm \/ AfterDeleteNotes
    \/ GetWordInfo \/ GetWordInfoWithSpecificMeanings
    \/ GenerateWordAudio \/ GenerateExampleAudio
    \/ CreateAnkiFields
    \/ NextAnki

Spec == Init /\ [][Next]_vars

----------------------------------------------------------------------------
(* Configuration: loadConfig and the deck and model options of main *)

NaN == [kind |-> "NaN", val |-> <<>>]

\* parseInt(s, 10) of a string without a sign: leading white space is
\* skipped, the longest run of decimal digits is read, and a string without
\* one gives NaN
parseInt(s) ==
    LET DigitChars == <<"0","1","2","3","4","5","6","7","8","9">>
        isDigit(c) == \E d \in DOMAIN DigitChars : DigitChars[d] = c
        first == IF \E i \in DOMAIN s : s[i] \notin Whitespace
                 THEN CHOOSE i \in DOMAIN s : s[i] \notin Whitespace /\ \A j \in 1..(i - 1) : s[j] \in Whitespace
                 ELSE Len(s) + 1
        last == IF \E i \in first..Len(s) : ~isDigit(s[i])
                THEN (CHOOSE i \in first..Len(s) : ~isDigit(s[i]) /\ \A j \in first..(i - 1) : isDigit(s[j])) - 1
                ELSE Len(s)
        digit(i) == (CHOOSE d \in DOMAIN DigitChars : DigitChars[d] = s[i]) - 1
        RECURSIVE value(_)
        value(i) == IF i < first THEN 0 ELSE 10 * value(i - 1) + digit(i)
    IN IF last < first THEN NaN ELSE [kind |-> "number", val |-> value(last)]

\* loadConfig with the file read first: a key of the file wins over the
\* environment
loadConfigFileFirst(env, file) ==
    LET or(v, default) == IF truthy(v) THEN v ELSE default
        defaultConfig ==
            [deck_name |-> or(env.DECK_NAME, Str(DeckName)),
             model_name |-> or(env.MODEL_NAME, Str(ModelName)),
             openai_api_key |-> or(env.OPENAI_API_KEY, Str(<<>>)),
             anki_host |-> or(env.ANKI_HOST, Str(<<"localhost">>)),
             anki_port |-> parseInt(or(env.ANKI_PORT, Str(<<"8","7","6","5">>)).val)]
        fileConfig == IF file.kind = "json" /\ file.data.kind = "object" THEN file.data.val ELSE <<>>
        variable ==
            [deck_name |-> env.DECK_NAME, model_name |-> env.MODEL_NAME,
             openai_api_key |-> env.OPENAI_API_KEY, anki_host |-> env.ANKI_HOST,
             anki_port |-> env.ANKI_PORT]
        set == { k \in DOMAIN variable : truthy(variable[k]) }
        overrides == [k \in set |-> IF k = "anki_port" THEN parseInt(variable[k].val)
                                    ELSE variable[k]]
    IN IF file.kind \in {"absent", "unparseable"}
       THEN Obj(defaultConfig)
       ELSE Obj([k \in DOMAIN fileConfig \cup set |->
                   IF k \in DOMAIN fileConfig THEN fileConfig[k] ELSE overrides[k]])

\* loadConfig: without a readable file the defaults, each taken from the
\* environment when the variable is truthy; with a file the keys of the file,
\* each overwritten when its variable is truthy
loadConfig(env, file) ==
    LET or(v, default) == IF truthy(v) THEN v ELSE default
        defaultConfig ==
            [deck_name |-> or(env.DECK_NAME, Str(DeckName)),
             model_name |-> or(env.MODEL_NAME, Str(ModelName)),
             openai_api_key |-> or(env.OPENAI_API_KEY, Str(<<>>)),
             anki_host |-> or(env.ANKI_HOST, Str(<<"localhost">>)),
             anki_port |-> parseInt(or(env.ANKI_PORT, Str(<<"8","7","6","5">>)).val)]
        fileConfig == IF file.kind = "json" /\ file.data.kind = "object" THEN file.data.val ELSE <<>>
        variable ==
            [deck_name |-> env.DECK_NAME, model_name |-> env.MODEL_NAME,
             openai_api_key |-> env.OPENAI_API_KEY, anki_host |-> env.ANKI_HOST,
             anki_port |-> env.ANKI_PORT]
        set == { k \in DOMAIN variable : truthy(variable[k]) }
        overrides == [k \in set |-> IF k = "anki_port" THEN parseInt(variable[k].val)
                                    ELSE variable[k]]
    IN IF file.kind \in {"absent", "unparseable"}
       THEN Obj(defaultConfig)
       ELSE Obj([k \in DOMAIN fileConfig \cup set |->
                   IF k \in set THEN overrides[k] ELSE fileConfig[k]])

\* the values of a complete config file
FileConfig ==
    [deck_name |-> Str(<<"File Deck">>), model_name |-> Str(<<"File Model">>),
     openai_api_key |-> Str(<<"sk-file">>), anki_host |-> Str(<<"filehost">>),
     anki_port |-> [kind |-> "number", val |-> 7000]]

\* The environment sets each variable or not, or sets it to the empty string;
\* the file is absent, not JSON, null, or an object with all keys, none, all
\* but one, or only one; --deck and --model are given or not.  Ports that are
\* not numbers come with a complete file.
InitConfig ==
    /\ AssembleOff /\ FetchOff /\ AnkiOff /\ AudioOff /\ MainOff /\ calls = <<>>
    /\ c_pc = "call"
    /\ c_config = <<>> /\ c_deckName = <<>> /\ c_modelName = <<>>
    /\ \/ /\ c_env \in [DECK_NAME : { Undefined, Str(<<>>), Str(<<"Env Deck">>) },
                        MODEL_NAME : { Undefined, Str(<<>>), Str(<<"Env Model">>) },
                        OPENAI_API_KEY : { Undefined, Str(<<>>), Str(<<"sk-env">>) },
                        ANKI_HOST : { Undefined, Str(<<>>), Str(<<"envhost">>) },
                        ANKI_PORT : { Undefined, Str(<<>>), Str(<<"9","0","0","0">>) }]
          /\ c_file \in { [kind |-> "absent"], [kind |-> "unparseable"], [kind |-> "json", data |-> Null] }
                        \cup { [kind |-> "json", data |-> Obj([k \in keys |-> FileConfig[k]])] :
                                 keys \in { K \in SUBSET DOMAIN FileConfig :
                                              Cardinality(K) \in {0, 1, 4, 5} } }
          /\ c_options \in { [deck |-> Undefined, model |-> Undefined],
                             [deck |-> Str(<<"Flag Deck">>), model |-> Undefined],
                             [deck |-> Undefined, model |-> Str(<<"Flag Model">>)],
                             [deck |-> Str(<<>>), model |-> Str(<<>>)] }
       \/ /\ c_env \in [DECK_NAME : { Undefined }, MODEL_NAME : { Undefined },
                        OPENAI_API_KEY : { Undefined }, ANKI_HOST : { Undefined },
                        ANKI_PORT : { Str(<<"a","b","c">>), Str(<<" ","8","0","a">>) }]
          /\ c_file \in { [kind |-> "absent"], [kind |-> "json", data |-> Obj(FileConfig)] }
          /\ c_options = [deck |-> Undefined, model |-> Undefined]

\* main: const config = loadConfig(), then deckName and modelName
LoadConfig ==
    /\ c_pc = "call"
    /\ c_pc' = "done"
    /\ c_config' = loadConfig(c_env, c_file)
    /\ c_deckName' = IF truthy(c_options.deck) THEN c_options.deck
                     ELSE getField(loadConfig(c_env, c_file), "deck_name")
    /\ c_modelName' = IF truthy(c_options.model) THEN c_options.model
                      ELSE getField(loadConfig(c_env, c_file), "model_name")
    /\ UNCHANGED <<c_env, c_file, c_options>>
    /\ UNCHANGED <<assembleVars, fetchVars, ankiVars, audioVars, mainVars, calls>>

SpecConfig == InitConfig /\ [][LoadConfig]_vars

----------------------------------------------------------------------------
(* Properties of card assembly (SpecAssemble) *)

\* the first name of fieldNames, in list order, that satisfies Match
FirstMatch(fieldNames, Match(_)) ==
    LET I == { i \in 1..Len(fieldNames) : Match(fieldNames[i]) }
    IN fieldNames[CHOOSE i \in I : \A j \in I : i <= j]

\* the filename example_<key>_<n>.mp3
exampleFilename(word, n) == ExamplePrefix \o safeWord(word) \o <<"_">> \o Digits(n) \o Mp3

\* number of example sentences of the record
exampleCount(wordInfo) ==
    IF isArray(getField(wordInfo, "example_sentence")) THEN Len(getField(wordInfo, "example_sentence").val) ELSE 1

\* text of the n-th example sentence of the record
exampleText(wordInfo, n) ==
    IF isArray(getField(wordInfo, "example_sentence"))
    THEN toText(getField(wordInfo, "example_sentence").val[n])
    ELSE toText(getField(wordInfo, "example_sentence"))

\* the audio list holds exactly the example assets 1..n (and perhaps the headword asset)
allExamplesSupplied(word, audioFiles, n) ==
    { audioFiles[i].filename : i \in 1..Len(audioFiles) } \ { WordPrefix \o safeWord(word) \o Mp3 }
        = { exampleFilename(word, i) : i \in 1..n }

\* C1: for every non-empty list of distinct field names the FieldMap carries
\* both blocks: the front block and the back block under two different
\* names, or front, newline, back under one name; the back block is never
\* dropped.
C1_BothBlocksCarried ==
    a_pc = "done" =>
        \/ \E f, g \in DOMAIN a_fields :
              f # g /\ a_fields[f] = a_front /\ a_fields[g] = a_back
        \/ \E f \in DOMAIN a_fields : a_fields[f] = a_front \o <<"\n">> \o a_back

\* C2: with two or more field names the resolved front field is the FIRST
\* name that contains a front token and the resolved back field is the FIRST
\* name that contains a back token; a later match never replaces an earlier
\* one.
C2_FirstMatchWins ==
    (a_pc = "done" /\ Len(a_fieldNames) >= 2) =>
        /\ (\E i \in 1..Len(a_fieldNames) : matchesFront(a_fieldNames[i]))
              => a_frontField = FirstMatch(a_fieldNames, matchesFront)
        /\ (\E i \in 1..Len(a_fieldNames) : matchesBack(a_fieldNames[i]))
              => a_backField = FirstMatch(a_fieldNames, matchesBack)

\* C3: for every number N >= 1 of example sentences and every input order of
\* the assets example_<key>_1.mp3 .. example_<key>_N.mp3, the sentence at
\* position n is rendered with the sound reference example_<key>_<n>.mp3.
C3_SentencePairedWithOwnAudio ==
    (a_pc = "done"
        /\ allExamplesSupplied(a_word, a_audioFiles, exampleCount(a_wordInfo))) =>
        \A n \in 1..exampleCount(a_wordInfo) :
            includes(a_back,
                     exampleText(a_wordInfo, n) \o soundTag(exampleFilename(a_word, n)))

\* C10: when fieldNames has exactly one element the FieldMap has exactly one
\* key, that element, whose value is the front block, a newline, then the
\* back block.
C10_SingleFieldConcatenation ==
    (a_pc = "done" /\ Len(a_fieldNames) = 1) =>
        /\ DOMAIN a_fields = { a_fieldNames[1] }
        /\ a_fields[a_fieldNames[1]] = a_front \o <<"\n">> \o a_back

\* a single-field note type was assembled, with audio supplied
C10_Witness ==
    /\ a_pc = "done"
    /\ Len(a_fieldNames) = 1
    /\ Len(a_audioFiles) > 0
    /\ DOMAIN a_fields = { a_fieldNames[1] }

\* no name of fieldNames satisfies Match
noMatch(fieldNames, Match(_)) == \A i \in 1..Len(fieldNames) : ~Match(fieldNames[i])

\* C11: when no field name contains a front token the front field is
\* fieldNames[0] and the front block is stored under it; when no field name
\* contains a back token the back field is fieldNames[1] if the list has a
\* second name (the back block is stored under it whenever it is not also the
\* front field), and with a single name the back block goes where the front
\* block goes.
C11_PositionalDefaults ==
    a_pc = "done" =>
        /\ (Len(a_fieldNames) >= 2 /\ noMatch(a_fieldNames, matchesFront)) =>
               /\ a_frontField = a_fieldNames[1]
               /\ a_fields[a_fieldNames[1]] = a_front
        /\ (Len(a_fieldNames) >= 2 /\ noMatch(a_fieldNames, matchesBack)) =>
               /\ a_backField = a_fieldNames[2]
               /\ a_backField # a_frontField => a_fields[a_fieldNames[2]] = a_back
        /\ (Len(a_fieldNames) = 1 /\ noMatch(a_fieldNames, matchesBack)) =>
               /\ includes(a_fields[a_fieldNames[1]], a_front)
               /\ includes(a_fields[a_fieldNames[1]], a_back)

\* a list of names none of which contains a front or a back token was
\* assembled into two fields
C11_Witness ==
    /\ a_pc = "done"
    /\ Len(a_fieldNames) >= 2
    /\ noMatch(a_fieldNames, matchesFront)
    /\ noMatch(a_fieldNames, matchesBack)
    /\ DOMAIN a_fields = { a_fieldNames[1], a_fieldNames[2] }

\* the names of fieldNames that satisfy Match
matching(fieldNames, Match(_)) ==
    { fieldNames[i] : i \in { j \in 1..Len(fieldNames) : Match(fieldNames[j]) } }

\* C12: when exactly one field name contains a front token and exactly one
\* other field name contains a back token, the FieldMap is exactly: the front
\* block under the front-matching name and the back block under the
\* back-matching name, wherever the two names stand in fieldNames.
C12_NamedFieldsWherever ==
    (a_pc = "done" /\ Len(a_fieldNames) >= 2) =>
        \A f \in matching(a_fieldNames, matchesFront) :
          \A b \in matching(a_fieldNames, matchesBack) :
            (/\ matching(a_fieldNames, matchesFront) = {f}
             /\ matching(a_fieldNames, matchesBack) = {b}
             /\ f # b) =>
                /\ DOMAIN a_fields = {f, b}
                /\ a_fields[f] = a_front
                /\ a_fields[b] = a_back

\* the only back-matching name stood before the only front-matching name,
\* after a name that matches neither
C12_Witness ==
    /\ a_pc = "done"
    /\ Len(a_fieldNames) = 3
    /\ ~matchesFront(a_fieldNames[1]) /\ ~matchesBack(a_fieldNames[1])
    /\ matchesBack(a_fieldNames[2]) /\ ~matchesFront(a_fieldNames[2])
    /\ matchesFront(a_fieldNames[3]) /\ ~matchesBack(a_fieldNames[3])
    /\ Cardinality(DOMAIN a_fields) = 2

\* the positions at which p occurs in s
occurrences(s, p) == { i \in 1..(Len(s) - Len(p) + 1) : SubSeq(s, i, i + Len(p) - 1) = p }

\* position i of block lies inside a sound reference [sound:...]
insideSound(block, i) ==
    \E j \in 1..(i - 1) : block[j] = " [sound:" /\ \A k \in j..i : block[k] # "]"

\* a bare string or a non-empty list of strings
textOrList(v) ==
    \/ v.kind = "string"
    \/ v.kind = "array" /\ Len(v.val) >= 1 /\ \A i \in 1..Len(v.val) : v.val[i].kind = "string"

\* an optional collection of the record: absent, "N/A", or a list of objects
optionalCollection(v) ==
    \/ v.kind = "undefined"
    \/ v = Str(NA)
    \/ v.kind = "array" /\ \A i \in 1..Len(v.val) : v.val[i].kind = "object"

\* the optional collections of a variant: the key of the record and the
\* heading of its section
sections(variant) ==
    IF variant = "word"
    THEN { <<"idiom", "<strong>Idiom/Phrase:</strong> ">>,
           <<"similar_words", "<strong>Similar Words & Differences:</strong> ">> }
    ELSE { <<"idiom", "<strong>Idiom/Phrase:</strong> ">>,
           <<"derivatives", "<strong>Derivatives:</strong> ">>,
           <<"similar_expressions", "<strong>Similar Expressions & Differences:</strong> ">> }

\* a record of the WordRecord shape, optional fields present or not
legalShape(variant, wordInfo) ==
    /\ wordInfo.kind = "object"
    /\ textOrList(getField(wordInfo, "english_meaning"))
    /\ textOrList(getField(wordInfo, "japanese_meaning"))
    /\ textOrList(getField(wordInfo, "example_sentence"))
    /\ getField(wordInfo, "ipa").kind \in {"undefined", "string"}
    /\ \A sec \in sections(variant) : optionalCollection(getField(wordInfo, sec[1]))

C14_SectionIffPresentAndNotNA ==
    a_pc = "done" =>
        \A sec \in sections(a_variant) :
            LET v == getField(a_wordInfo, sec[1])
                heading == \E i \in DOMAIN a_back : a_back[i] = sec[2]
            IN /\ heading <=> (v.kind # "undefined" /\ v # Str(NA))
               /\ v = Str(NA) => ~includes(a_back, NA)
               /\ Cardinality({ i \in DOMAIN a_back : a_back[i] = sec[2] }) <= 1

\* idiom is "N/A" while the other collections are lists: the idiom section is
\* suppressed and the others are rendered (expression variant, derivatives
\* included)
C14_Witness ==
    /\ a_pc = "done"
    /\ a_variant = "expression"
    /\ getField(a_wordInfo, "idiom") = Str(NA)
    /\ isArray(getField(a_wordInfo, "derivatives"))
    /\ isArray(getField(a_wordInfo, "similar_expressions"))
    /\ \E i \in DOMAIN a_back : a_back[i] = "<strong>Derivatives:</strong> "

\* the example assets of the audio list: filename example_<key>_...
exampleAssets(word, audioFiles) ==
    { i \in DOMAIN audioFiles :
        startsWith(audioFiles[i].filename, ExamplePrefix \o safeWord(word) \o <<"_">>) }

\* the asset is referenced by a sound reference somewhere in the FieldMap
referenced(fields, filename) ==
    \E name \in DOMAIN fields : includes(fields[name], soundTag(filename))

\* C15: with K example assets and N example sentences, K < N: createAnkiFields
\* completes, the first K sentences are each followed by one sound reference
\* and the other N - K by none; K > N: exactly N example assets are
\* referenced in the FieldMap, each once, and the K - N surplus ones nowhere.
C15_ShortAndLongAudioLists ==
    LET N == exampleCount(a_wordInfo)
        assets == exampleAssets(a_word, a_audioFiles)
        K == Cardinality(assets)
        tagged == { n \in 1..N : includes(a_back, exampleText(a_wordInfo, n) \o <<" [sound:">>) }
        used == { i \in assets : referenced(a_fields, a_audioFiles[i].filename) }
    IN (a_pc \in {"done", "thrown"} /\ a_variant = "word" /\ legalShape(a_variant, a_wordInfo)) =>
          /\ a_pc = "done"
          /\ K < N => /\ tagged = 1..K
                      /\ Cardinality({ i \in DOMAIN a_back : a_back[i] = " [sound:" }) = K
          /\ K > N => /\ tagged = 1..N
                      /\ Cardinality(used) = N
                      /\ Cardinality({ i \in DOMAIN a_back : a_back[i] = " [sound:" }) = N

\* five sentences were assembled with the headword asset and two example
\* assets given out of order
C15_Witness ==
    /\ a_pc = "done"
    /\ exampleCount(a_wordInfo) = 5
    /\ Cardinality(exampleAssets(a_word, a_audioFiles)) = 2
    /\ localeCompare(a_audioFiles[1].filename, a_audioFiles[2].filename) > 0
    /\ Cardinality({ i \in DOMAIN a_back : a_back[i] = " [sound:" }) = 2

\* C16: createAnkiFields raises for no record of the legal shape, whichever
\* of ipa and the optional collections are absent; with ipa absent the
\* pronunciation element of the front block is empty, and an absent
\* collection has no section in the back block.
C16_TotalOverLegalShape ==
    (a_pc \in {"done", "thrown"} /\ legalShape(a_variant, a_wordInfo)) =>
        /\ a_pc = "done"
        /\ getField(a_wordInfo, "ipa").kind = "undefined" =>
               SubSeq(a_front, Len(a_front) - 1, Len(a_front))
                   = <<"</div><div style=\"font-size: 18px; color: #666;\">", "</div>">>
        /\ \A sec \in sections(a_variant) :
               getField(a_wordInfo, sec[1]).kind = "undefined" =>
                   \A i \in DOMAIN a_back : a_back[i] # sec[2]

\* a record without ipa, idiom and similar_words was assembled with audio
C16_Witness ==
    /\ a_pc = "done"
    /\ DOMAIN a_wordInfo.val = {"english_meaning", "japanese_meaning", "example_sentence"}
    /\ Len(a_audioFiles) > 0
    /\ DOMAIN a_fields = { FrontBack[1], FrontBack[2] }

\* the headword with every space, '/' and '\' replaced by '_'
sanitized(word) ==
    [i \in 1..Len(word) |-> IF word[i] \in {" ", "/", "\\"} THEN "_" ELSE word[i]]

\* C17: the key under which the audio files are named and the key by which
\* createAnkiFields matches them are both the headword with every space, '/'
\* and '\' replaced by '_' and every other character unchanged ("look
\* up/down" gives "look_up_down"): the headword asset is named
\* word_<key>.mp3, the example assets example_<key>_<n>.mp3, and the assembly
\* finds the headword asset, when the list has one, and as many example
\* assets as it has sentences.
C17_OneSanitizedKey ==
    (a_pc = "done" /\ a_variant = "word" /\ Len(a_audioFiles) > 0) =>
        LET key == sanitized(a_word)
            named == { a_audioFiles[i].filename : i \in DOMAIN a_audioFiles }
            examples == named \ { WordPrefix \o key \o Mp3 }
        IN /\ a_word = <<"l","o","o","k"," ","u","p","/","d","o","w","n">>
                  => key = <<"l","o","o","k","_","u","p","_","d","o","w","n">>
           /\ WordPrefix \o key \o Mp3 \in named
                  => includes(a_front, soundTag(WordPrefix \o key \o Mp3))
           /\ examples = { ExamplePrefix \o key \o <<"_">> \o Digits(n) \o Mp3 :
                              n \in 1..Cardinality(examples) }
           /\ Cardinality({ f \in examples : includes(a_back, soundTag(f)) })
                  = IF Cardinality(examples) < exampleCount(a_wordInfo)
                    THEN Cardinality(examples)
                    ELSE exampleCount(a_wordInfo)

\* a headword with a backslash and two spaces in a row was assembled with the
\* audio files named for it
C17_Witness ==
    /\ a_pc = "done"
    /\ a_word = <<"a","\\","b"," "," ","c">>
    /\ Len(a_audioFiles) = 2
    /\ includes(a_front, soundTag(<<"w","o","r","d","_","a","_","b","_","_","c",".","m","p","3">>))
    /\ includes(a_back, soundTag(<<"e","x","a","m","p","l","e","_","a","_","b","_","_","c","_","1",
                                     ".","m","p","3">>))

\* C25: for every list of field names, the headword asset is targeted at the
\* field that holds the front block and every example asset at the field
\* that holds the back block.
C25_AssetTargetsItsBlock ==
    (a_pc = "done" /\ a_variant = "word") =>
        \A i \in DOMAIN a_audioFiles :
            LET af == a_audioFiles[i]
                block == IF startsWith(af.filename, WordPrefix) THEN a_front ELSE a_back
            IN { af.fields[j] : j \in DOMAIN af.fields }
                   = { name \in DOMAIN a_fields : includes(a_fields[name], block) }

----------------------------------------------------------------------------
(* Properties of the content generation client (SpecFetch) *)

PartOfSpeechTags == { TagNoun, TagVerb, TagAdjective, TagAdverb, TagDefinition }

startsWithTag(meaning) == \E t \in PartOfSpeechTags : startsWith(meaning, t)

\* the shape of a WordRecord: an object with all six keys, english_meaning a
\* list of strings
conforms(data) ==
    /\ data.kind = "object"
    /\ DOMAIN data.val = { "japanese_meaning", "english_meaning", "ipa", "idiom",
                           "example_sentence", "similar_words" }
    /\ data.val["english_meaning"].kind = "array"
    /\ \A i \in 1..Len(data.val["english_meaning"].val) :
           data.val["english_meaning"].val[i].kind = "string"

\* C6: whatever the upstream returned, every entry of english_meaning of a
\* returned record starts with [noun], [verb], [adjective], [adverb] or
\* [definition].
C6_EveryMeaningTagged ==
    f_result.outcome = "returned" =>
        LET en == getField(f_result.data, "english_meaning")
        IN en.kind = "array" =>
               \A i \in 1..Len(en.val) :
                   en.val[i].kind = "string" /\ startsWithTag(en.val[i].val)

\* C7: every record returned in specific-meanings mode has japanese_meaning
\* equal to the caller-supplied list and idiom equal to "N/A".
C7_SpecificMeaningsForced ==
    (f_result.outcome = "returned" /\ f_method = "getWordInfoWithSpecificMeanings") =>
        LET ja == getField(f_result.data, "japanese_meaning")
            idiom == getField(f_result.data, "idiom")
        IN /\ ja.kind = "array" /\ ja.val = f_japaneseMeanings
           /\ idiom.kind = "string" /\ idiom.val = NA

\* a record was returned in specific-meanings mode although the upstream gave
\* another japanese_meaning and a list of idioms
C7_Witness ==
    /\ f_result.outcome = "returned"
    /\ f_method = "getWordInfoWithSpecificMeanings"
    /\ getField(f_upstream.data, "idiom").kind = "array"
    /\ getField(f_upstream.data, "japanese_meaning").kind = "array"
    /\ getField(f_upstream.data, "japanese_meaning").val # f_japaneseMeanings

\* C8: a record is returned only when the upstream content conforms to the
\* WordRecord shape; with no content, unparseable content or content of a
\* non-conforming shape the call fails with OpenAIError and returns nothing.
C8_OnlyConformingReturned ==
    f_pc = "done" =>
        IF f_upstream.kind = "json" /\ conforms(f_upstream.data)
        THEN f_result.outcome = "returned"
        ELSE f_result = Thrown("OpenAIError")

\* rule k of the tag inference applies to the text, whose lower-case form is
\* lower.  The last space-separated token ends in "ly" exactly when the text
\* does.
ruleApplies(k, text, lower) ==
    CASE k = 1 -> startsWith(lower, <<"t","o"," ">>)
      [] k = 2 -> \E p \in { <<"a"," ">>, <<"a","n"," ">>, <<"t","h","e"," ">> } : startsWith(lower, p)
      [] k = 3 -> \E p \in { <<"h","a","v","i","n","g"," ">>, <<"b","e","i","n","g"," ">>,
                             <<"s","h","o","w","i","n","g"," ">>, <<"c","a","u","s","i","n","g"," ">>,
                             <<"p","l","e","a","s","i","n","g"," ">>, <<"m","a","k","i","n","g"," ">> } :
                      startsWith(lower, p)
      [] k = 4 -> \E p \in { <<" ","a","c","t"," ","o","f"," ">>,
                             <<" ","p","r","o","c","e","s","s"," ","o","f"," ">>,
                             <<" ","s","t","a","t","e"," ","o","f"," ">>,
                             <<" ","q","u","a","l","i","t","y"," ","o","f"," ">> } :
                      includes(lower, p)
      [] k = 5 -> Len(lower) >= 2 /\ lower[Len(lower) - 1] = "l" /\ lower[Len(lower)] = "y"
      [] k = 6 -> /\ Cardinality({ i \in DOMAIN text : text[i] = " " }) + 1 <= 5
                  /\ \A i \in DOMAIN text : text[i] \notin {".", ",", ":", ";"}
      [] k = 7 -> TRUE

\* the tags of the rules, in the order of the rules
RuleTags == <<TagVerb, TagNoun, TagAdjective, TagNoun, TagAdverb, TagAdjective, TagDefinition>>

\* C19: every entry of english_meaning that does not start with "[" is
\* returned as the tag of the first rule that applies (letter case set
\* aside), a space, and the original text; the list keeps its length and its
\* order.
C19_FirstRuleDecidesTag ==
    (/\ f_result.outcome = "returned"
     /\ getField(f_upstream.data, "english_meaning").kind = "array") =>
        LET given == getField(f_upstream.data, "english_meaning").val
            returned == getField(f_result.data, "english_meaning")
        IN /\ returned.kind = "array"
           /\ Len(returned.val) = Len(given)
           /\ \A i \in DOMAIN given :
                  IF startsWith(given[i].val, <<"[">>)
                  THEN returned.val[i] = given[i]
                  ELSE \E k \in DOMAIN RuleTags :
                           /\ returned.val[i] = Str(RuleTags[k] \o <<" ">> \o given[i].val)
                           /\ ruleApplies(k, given[i].val, toLowerCase(given[i].val))
                           /\ \A j \in 1..(k - 1) :
                                  ~ruleApplies(j, given[i].val, toLowerCase(given[i].val))

\* a list of two untagged entries was returned: the first satisfies the rule
\* for "act of" and the rule for -ly, the second only the last rule
C19_Witness ==
    /\ f_result.outcome = "returned"
    /\ getField(f_upstream.data, "english_meaning")
           = Arr(<<Str(<<"s","o","m","e"," ","a","c","t"," ","o","f"," ","t","e","s","t","i","n","g"," ","k","i","n","d","l","y">>),
                   Str(<<"o","n","e"," ","t","w","o"," ","t","h","r","e","e"," ","f","o","u","r"," ","f","i","v","e"," ","s","i","x">>)>>)

----------------------------------------------------------------------------
(* Properties of AnkiConnector (SpecAnki) *)

\* the response carries a result and an error field, and error is null
wellFormed(response) ==
    /\ response.kind = "response"
    /\ response.data.type = "object"
    /\ {"result", "error"} \subseteq response.data.keys
    /\ response.data.error.kind = "null"

\* C9: an operation returns only when the last response carries both a result
\* and an error field with error null, and then (deleteNotes apart, which
\* returns nothing) it returns that response's result; after an unreachable
\* service, a malformed response or a non-null error the operation has failed
\* with AnkiConnectionError, and addNote goes on to its next request only
\* after a clean response.
C9_ResultOnlyFromCleanResponse ==
    /\ k_pc = "done" =>
           /\ k_result.outcome = "returned" =>
                  /\ wellFormed(k_response)
                  /\ k_op # "deleteNotes" => k_result.data = k_response.data.result
           /\ ~wellFormed(k_response) => k_result = Thrown("AnkiConnectionError")
    /\ k_pc \in {"createDeck", "addNote"} => wellFormed(k_response)

\* an operation has finished on a response that carries a result next to a
\* non-null error
C9_Witness ==
    /\ k_pc = "done"
    /\ k_response.kind = "response"
    /\ k_response.data.type = "object"
    /\ k_response.data.keys = {"result", "error"}
    /\ k_response.data.error.kind = "string"
    /\ k_result.outcome = "thrown"

\* C29: addNote sends deckNames first, then createDeck exactly when the listing
\* came back clean without the target deck, and addNote last, each request
\* only after a clean response to the one before, so that a failed listing or
\* a failed createDeck leaves addNote unsent; the note sent carries an audio
\* list exactly when at least one audio asset was given, and then that list.
C29_DeckBeforeNote ==
    /\ [](k_op = "addNote" =>
            LET sent == [i \in DOMAIN calls |-> calls[i].action]
            IN /\ sent \in { <<>>, <<"deckNames">>, <<"deckNames", "createDeck">>,
                             <<"deckNames", "addNote">>,
                             <<"deckNames", "createDeck", "addNote">> }
               /\ k_pc = "call" <=> sent = <<>>
               /\ k_pc = "createDeck" => sent = <<"deckNames">>
               /\ (k_pc = "done" /\ k_result.outcome = "returned") =>
                      sent[Len(sent)] = "addNote"
               /\ \A i \in DOMAIN calls :
                      /\ calls[i].action = "createDeck" =>
                             calls[i].params = [deck |-> k_args.deckName]
                      /\ calls[i].action = "addNote" =>
                             LET sentNote == calls[i].params.note
                             IN /\ "audio" \in DOMAIN sentNote <=> Len(k_args.audio) > 0
                                /\ "audio" \in DOMAIN sentNote =>
                                       sentNote.audio = k_args.audio
                                /\ sentNote.deckName = k_args.deckName)
    /\ [][(k_op = "addNote" /\ Len(calls') = Len(calls) + 1 /\ Len(calls) >= 1) =>
            /\ wellFormed(k_response)
            /\ Len(calls) = 1 =>
                   ( calls'[2].action = "createDeck"
                     <=> \A i \in DOMAIN k_response.data.result :
                             k_response.data.result[i] # k_args.deckName )
         ]_vars

\* addNote has created the missing deck and sent a note with an audio list
C29_Witness ==
    /\ k_op = "addNote" /\ k_pc = "done" /\ k_result.outcome = "returned"
    /\ Len(calls) = 3 /\ calls[2].action = "createDeck"
    /\ "audio" \in DOMAIN calls[3].params.note

----------------------------------------------------------------------------
(* Properties of the command line and the interactive session (Spec) *)

\* the positions of the requests with the given action in calls
requests(action) == { i \in DOMAIN calls : calls[i].action = action }

\* C4: a deleteNotes request is sent only after a findNotes request, when
\* findNotes returned at least one note id and the answer to the confirmation
\* question is exactly y or Y, and it carries exactly the ids findNotes
\* returned; so a request that found no note, or was answered otherwise, has
\* sent no deleteNotes.  In the one-shot mode and in the session alike.
C4_DeleteOnlyAfterConfirmation ==
    \A i \in requests("deleteNotes") :
        /\ \E j \in requests("findNotes") : j < i
        /\ Len(m_noteIds) >= 1
        /\ m_confirm \in { <<"y">>, <<"Y">> }
        /\ calls[i].params.notes = m_noteIds

\* the session has sent deleteNotes for two notes after the answer Y
C4_Witness ==
    /\ interactive
    /\ requests("deleteNotes") # {}
    /\ m_confirm = <<"Y">>
    /\ Len(m_noteIds) = 2

\* a field whose content refers to a sound
hasSound(fields) == \E name \in DOMAIN fields : includes(fields[name], <<" [sound:">>)

\* C5: once generateAudioFiles has failed, the add request is not ended
\* there: the card is assembled from an empty list of audio files, addNote is
\* called with these fields and no audio, no field refers to a sound, and an
\* addNote request carries no audio.  The request is over only after addNote
\* was called.
C5_AudioFailureDegrades ==
    (m_pc # "off" /\ p_result.outcome = "thrown") =>
        /\ m_pc \in {"generateAudioFiles", "createAnkiFields", "addNote", "prompt", "end"}
        /\ m_pc # "generateAudioFiles" =>
               /\ m_audioFiles = <<>> /\ a_audioFiles = <<>>
               /\ a_pc \in {"input", "done"}
        /\ m_pc \in {"addNote", "prompt", "end"} =>
               /\ a_pc = "done" /\ ~hasSound(a_fields)
               /\ k_op = "addNote"
               /\ k_args.fields = a_fields /\ k_args.audio = <<>>
        /\ \A i \in requests("addNote") :
               /\ "audio" \notin DOMAIN calls[i].params.note
               /\ ~hasSound(calls[i].params.note.fields)

\* the audio of the headword was made, the audio of an example failed, and the
\* note was sent all the same
C5_Witness ==
    /\ p_result.outcome = "thrown"
    /\ Len(p_wordAudio) > 0 /\ Len(p_sentences) > 0
    /\ requests("addNote") # {}
    /\ k_result.outcome = "returned"

\* C18: the front block holds one sound reference, right after the headword
\* and naming the first asset whose filename starts with word_<key>, exactly
\* when the audio list holds such an asset; and every addNote request sent
\* after generateAudioFiles succeeded carries a field with the headword
\* followed by the reference to word_<key>.mp3.
C18_HeadwordSoundReference ==
    /\ a_pc = "done" =>
           LET found == { i \in DOMAIN a_audioFiles :
                            startsWith(a_audioFiles[i].filename, WordPrefix \o sanitized(a_word)) }
               first == CHOOSE i \in found : \A j \in found : i <= j
               sounds == { i \in DOMAIN a_front : a_front[i] = " [sound:" }
           IN IF found = {}
              THEN sounds = {}
              ELSE /\ sounds = { Len(a_word) + 2 }
                   /\ SubSeq(a_front, 2, Len(a_word) + 3 + Len(a_audioFiles[first].filename))
                          = a_word \o soundTag(a_audioFiles[first].filename)
    /\ p_result.outcome = "returned" =>
           \A i \in requests("addNote") :
               \E name \in DOMAIN calls[i].params.note.fields :
                   includes(calls[i].params.note.fields[name],
                            m_word \o soundTag(WordPrefix \o sanitized(m_word) \o Mp3))

\* the session added a card after the audio of the headword and of two
\* sentences was generated
C18_Witness ==
    /\ interactive
    /\ p_result.outcome = "returned"
    /\ Len(p_exampleAudios) = 2
    /\ requests("addNote") # {}
    /\ k_result.outcome = "returned"

\* C20: every failure of generateAudio (no audio stream, a failed send, an
\* error of the stream while it is read) reaches the caller of generateAudio
\* as PollyError.
C20_EveryFailureIsPollyError ==
    p_audio.outcome = "thrown" => p_audio = Thrown("PollyError")

\* C21: with the flag --no-audio on the command line, one-shot or with
\* --interactive, an add request sends no SynthesizeSpeech request and its
\* addNote request carries no audio.
C21_NoAudioFlagDisablesSynthesis ==
    "--no-audio" \in m_argv.flags =>
        /\ requests("SynthesizeSpeech") = {}
        /\ \A i \in requests("addNote") : "audio" \notin DOMAIN calls[i].params.note
        /\ m_audioFiles = <<>>

\* the place of a request in the add flow: note-type validation, content
\* generation, speech synthesis, addNote (its deck requests included)
stage(action) ==
    CASE action \in {"modelNames", "modelFieldNames"} -> 1
      [] action = "chat.completions.create" -> 2
      [] action = "SynthesizeSpeech" -> 3
      [] action \in {"deckNames", "createDeck", "addNote"} -> 4
      [] OTHER -> 0

\* C23: the requests of an add request are sent in the order note-type
\* validation, content generation, speech synthesis, addNote, and the card is
\* assembled before addNote is called; at most one addNote request is sent,
\* and only after the note type was found and content generation succeeded;
\* when the note type is missing or content generation fails, neither a
\* synthesis request nor an addNote request is sent.
C23_AddFlowOrder ==
    LET later == requests("chat.completions.create") \cup requests("SynthesizeSpeech")
                 \cup requests("deckNames") \cup requests("addNote")
    IN /\ \A i, j \in DOMAIN calls :
              (i < j /\ stage(calls[i].action) > 0 /\ stage(calls[j].action) > 0)
                  => stage(calls[i].action) <= stage(calls[j].action)
       /\ Cardinality(requests("addNote")) <= 1
       /\ Cardinality(requests("chat.completions.create")) <= 1
       /\ later # {} =>
              /\ m_fieldNames \in ModelFieldLists
              /\ ~interactive => requests("modelNames") # {} /\ requests("modelFieldNames") # {}
       /\ (requests("SynthesizeSpeech") # {} \/ k_op = "addNote") =>
              /\ requests("chat.completions.create") # {}
              /\ f_result.outcome = "returned"
       /\ k_op = "addNote" => a_pc = "done" /\ k_args.fields = a_fields
       /\ requests("addNote") # {} => k_op = "addNote"

\* an add request went through all its stages, with two synthesis requests,
\* in the session
C23_Witness ==
    /\ interactive
    /\ requests("addNote") # {}
    /\ Cardinality(requests("SynthesizeSpeech")) >= 2
    /\ requests("chat.completions.create") # {}

\* C24: in the add flow, whatever list of example sentences content
\* generation returned, a sound reference rendered right after an example
\* sentence names the audio file that was synthesized from that sentence.
C24_ReferenceBesideOwnSentence ==
    (m_pc # "off" /\ a_pc = "done" /\ p_result.outcome = "returned") =>
        \A n \in 1..exampleCount(a_wordInfo) :
            \A i \in DOMAIN p_result.data.exampleAudios :
                LET exampleAudio == p_result.data.exampleAudios[i]
                IN includes(a_back, exampleText(a_wordInfo, n)
                                     \o soundTag(exampleFilename(a_word, exampleAudio.index + 1)))
                       => exampleAudio.sentence = trim(exampleText(a_wordInfo, n))

\* the example sentences that are neither blank nor "N/A", in their order; a
\* single sentence is trimmed
retained(content) ==
    IF content.kind = "string"
    THEN IF spoken(content.val) THEN <<trim(content.val)>> ELSE <<>>
    ELSE IF content.kind = "array"
    THEN LET kept == SelectSeq(content.val, LAMBDA v : v.kind = "string" /\ spoken(v.val))
         IN [i \in DOMAIN kept |-> kept[i].val]
    ELSE <<>>

\* C26: after the audio step of an add request the list of audio files is
\* empty, or it is the headword file followed by one example file for each
\* retained sentence, numbered 1..k in the order of the sentences and holding
\* the audio of that sentence; after a failed synthesis call, also one that
\* follows successful ones, the list is empty.
C26_AudioListAllOrNothing ==
    m_pc \in {"createAnkiFields", "addNote"} =>
        LET sentences == retained(getField(f_result.data, "example_sentence"))
            key == sanitized(m_word)
            complete == << [filename |-> WordPrefix \o key \o Mp3, data |-> <<"mp3:">> \o m_word] >>
                        \o [i \in DOMAIN sentences |->
                              [filename |-> ExamplePrefix \o key \o <<"_">> \o Digits(i) \o Mp3,
                               data |-> <<"mp3:">> \o sentences[i]]]
            listed == [i \in DOMAIN m_audioFiles |->
                          [filename |-> m_audioFiles[i].filename, data |-> m_audioFiles[i].data]]
        IN /\ listed = <<>> \/ listed = complete
           /\ (p_audio.outcome = "thrown" \/ p_result.outcome = "thrown") => listed = <<>>
           /\ p_result.outcome = "returned" => listed = complete

\* the second example sentence failed after the headword and the first
\* sentence were synthesized, and the card is assembled without audio
C26_Witness ==
    /\ m_pc = "createAnkiFields"
    /\ p_audio.outcome = "thrown"
    /\ Cardinality(requests("SynthesizeSpeech")) = 3
    /\ m_audioFiles = <<>>

\* C27: generateAudioFiles sends the synthesis request for the headword
\* first and then one for each retained sentence, in their order; a request
\* is sent only when the one before it has completed, and after a failed
\* request, the one for the headword included, no further request is sent.
C27_SynthesisOneAfterAnother ==
    p_pc # "off" =>
        LET sent == SelectSeq(calls, LAMBDA c : c.action = "SynthesizeSpeech")
            sentences == retained(p_exampleSentences)
        IN /\ Len(sent) <= 1 + Len(sentences)
           /\ Len(sent) >= 1 => sent[1].text = p_word /\ sent[1].rate = WordRate
           /\ \A i \in 2..Len(sent) :
                  sent[i].text = sentences[i - 1] /\ sent[i].rate = ExampleRate
           /\ p_pc = "call" => Len(sent) = 0
           /\ p_pc = "examples" => Len(sent) = 1 + Len(p_exampleAudios)
           /\ p_audio.outcome = "thrown" => p_pc = "done" /\ p_result.outcome = "thrown"
           /\ (p_pc = "done" /\ p_result.outcome = "returned") => Len(sent) = 1 + Len(sentences)

\* the headword and two sentences were synthesized, one after another
C27_Witness ==
    /\ p_pc = "done" /\ p_result.outcome = "returned"
    /\ Cardinality(requests("SynthesizeSpeech")) = 3
    /\ Len(p_exampleAudios) = 2

\* the awaits of one command of the session, between two prompts
CommandSteps == {"fetch", "generateAudioFiles", "createAnkiFields", "addNote",
                 "findNotes", "notesInfo", "confirm", "deleteNotes"}

\* C28: once the session is in its prompt loop, no step of a command ends it;
\* a failed content generation or Anki request is followed by the prompt; the
\* session ends only at the prompt, on the command quit or exit; and whenever
\* the session has ended, its input interface is closed.
C28_SessionOutlivesFailures ==
    /\ []((interactive /\ m_pc = "end") => m_rl = "closed")
    /\ [][interactive =>
            /\ m_pc \in CommandSteps => m_pc' # "end"
            /\ (m_pc = "prompt" /\ m_pc' = "end") =>
                   /\ Len(m_parts') > 0
                   /\ toLowerCase(m_parts'[1]) \in { <<"q","u","i","t">>, <<"e","x","i","t">> }
            /\ (m_pc = "fetch" /\ f_result.outcome = "thrown" /\ m_pc' # m_pc) =>
                   m_pc' = "prompt"
            /\ ( /\ m_pc \in {"addNote", "findNotes", "notesInfo", "deleteNotes"}
                 /\ k_result.outcome = "thrown" /\ m_pc' # m_pc ) => m_pc' = "prompt"
       ]_vars

\* the session prompts again after an addNote request that failed
C28_Witness ==
    /\ interactive /\ m_pc = "prompt" /\ m_rl = "open"
    /\ k_pc = "done" /\ k_result.outcome = "thrown"
    /\ requests("addNote") # {}

----------------------------------------------------------------------------
(* Properties of the configuration (SpecConfig) *)

\* the five settings and the environment variable of each
SettingVariable ==
    [deck_name |-> "DECK_NAME", model_name |-> "MODEL_NAME", openai_api_key |-> "OPENAI_API_KEY",
     anki_host |-> "ANKI_HOST", anki_port |-> "ANKI_PORT"]

\* the value a variable gives its setting: the string, for the port the
\* number it is read as
settingOf(k, variable) == IF k = "anki_port" THEN parseInt(variable.val) ELSE variable

\* the file gives the setting
inFile(k) == c_file.kind = "json" /\ c_file.data.kind = "object" /\ k \in DOMAIN c_file.data.val

\* C22 as stated: a setting whose variable is set has the variable's value
\* whatever the file holds, a setting whose variable is unset has the file's
\* value, and a --deck or --model option that is given decides the deck or
\* model name of the run.
C22_EnvironmentThenFileThenFlag ==
    c_pc = "done" =>
        /\ \A k \in DOMAIN SettingVariable :
               LET variable == c_env[SettingVariable[k]]
               IN /\ variable.kind = "string" => getField(c_config, k) = settingOf(k, variable)
                  /\ (variable.kind = "undefined" /\ inFile(k))
                         => getField(c_config, k) = c_file.data.val[k]
        /\ c_options.deck.kind = "string" => c_deckName = c_options.deck
        /\ c_options.model.kind = "string" => c_modelName = c_options.model
        /\ c_options.deck.kind = "undefined" => c_deckName = getField(c_config, "deck_name")
        /\ c_options.model.kind = "undefined" => c_modelName = getField(c_config, "model_name")

\* C22, amended: a setting whose variable is set to a non-empty string has
\* the variable's value (the port: the number parseInt reads from it)
\* whatever the file holds; a setting whose variable is unset or empty has
\* the file's value when a parseable file gives it; a non-empty --deck or
\* --model option decides the deck or model name of the run, and without one
\* the name is the resolved setting.
C22_NonEmptyEnvironmentThenFileThenFlag ==
    c_pc = "done" =>
        /\ \A k \in DOMAIN SettingVariable :
               LET variable == c_env[SettingVariable[k]]
               IN /\ truthy(variable) => getField(c_config, k) = settingOf(k, variable)
                  /\ (~truthy(variable) /\ inFile(k))
                         => getField(c_config, k) = c_file.data.val[k]
        /\ c_deckName = IF truthy(c_options.deck) THEN c_options.deck
                        ELSE getField(c_config, "deck_name")
        /\ c_modelName = IF truthy(c_options.model) THEN c_options.model
                         ELSE getField(c_config, "model_name")

\* the configuration was loaded from a complete file with every variable
\* set, and --model was given
C22_Witness ==
    /\ c_pc = "done"
    /\ \A k \in DOMAIN SettingVariable : truthy(c_env[SettingVariable[k]]) /\ inFile(k)
    /\ getField(c_config, "deck_name") = Str(<<"Env Deck">>)
    /\ getField(c_config, "anki_port") = [kind |-> "number", val |-> 9000]
    /\ c_modelName = Str(<<"Flag Model">>)

\* C30: whatever the environment and the config file are, loadConfig returns
\* a configuration with all five settings defined, and a setting given
\* neither by the environment nor by the file has its built-in default.
C30_EverySettingDefined ==
    c_pc = "done" =>
        \A k \in DOMAIN SettingVariable :
            /\ getField(c_config, k).kind # "undefined"
            /\ (~truthy(c_env[SettingVariable[k]]) /\ ~inFile(k)) =>
                   getField(c_config, k) =
                       [deck_name |-> Str(DeckName), model_name |-> Str(ModelName),
                        openai_api_key |-> Str(<<>>), anki_host |-> Str(<<"localhost">>),
                        anki_port |-> [kind |-> "number", val |-> 8765]][k]

====
